---------------------------- MODULE Spec2Model ----------------------------
(***************************************************************************)
(* A model of the AI-Fitness-Tracker client: the WorkoutTracker screen,    *)
(* the workout / daily-goal / macro utilities, the goal form, the          *)
(* MacroTracker meal form and its persistence, the Dashboard's meal count, *)
(* App's routing, AuthService and GoalsService.                            *)
(*                                                                         *)
(* Strings that the code trims or parses are sequences of one-character    *)
(* strings.  Optional fields that are unset are absent from their record.  *)
(***************************************************************************)
EXTENDS Integers, Sequences, FiniteSets, TLC

VARIABLES
  \* ---- WorkoutTracker screen (React state of the component) ----
  loaded,            \* the mount effect has run loadWorkoutHistory
  currentWorkout,    \* WorkoutSession | null
  workoutHistory,    \* WorkoutSession[]
  workoutName,       \* text of the name input
  selectedExercise,  \* exercise picked in the modal ('' when none)
  startTime,         \* Date | null
  clock,             \* Date.now(), in ticks
  removeAlert,       \* the pending "Remove Exercise" alert, or null
  \* ---- dailyGoalsUtils: a task list and the last call made on it ----
  tasks,             \* DailyTask[]
  tkCall,            \* the last call made: [op, id, delta], or null
  tkPrev,            \* the call made before it, or null
  progress,          \* what computeDailyProgress last returned
  \* ---- workoutUtils: the arguments and the run of one call ----
  history,           \* workoutHistory: WorkoutSession[]
  now,               \* nowDate: a Date (an instant, or an Invalid Date)
  tz,                \* the device's time zone: local time = UTC + tz hours
  wkPc,              \* "idle" | "streak" (in the while loop) | "done"
  checkDate,         \* computeWeeklySummary's checkDate
  currentStreak,     \* computeWeeklySummary's currentStreak
  summary,           \* completedThisWeek and totalMinutes, once computed
  trends,            \* what computeLocalTrends returned, or that it threw
  \* ---- App's current screen; MacroTracker and GoalForm (React state) ----
  currentPage,       \* the page App renders
  meals,             \* Meal[]
  showAddMeal,       \* the Add / Edit Meal modal is open
  editingMealId,     \* [id] of the meal being edited, or null
  newMeal,           \* the draft: the texts of the five inputs
  mealAlert,         \* the Alert on display, or null
  mealClock,         \* Date.now(), in milliseconds
  goalType,          \* GoalForm's segment choice
  targetValue,       \* text of the target input
  startDate,         \* text of the start date input
  endDate,           \* text of the end date input
  submitting,        \* GoalsService.createGoal is awaited
  error,             \* [message] shown under the form, or null
  createGoalCalls,   \* calls of GoalsService.createGoal so far
  \* ---- validateGoalForm: the argument and the result of one call ----
  values,            \* CreateGoalForm, fields possibly undefined
  validation,        \* [errors] once validateGoalForm returned, or null
  \* ---- a call of one of the other pure utility functions ----
  call,              \* [fn, <arguments>]: the function called and its arguments
  returned,          \* [value] once the call returned, or null
  \* ---- AuthService and GoalsService: the stores and one call of createGoal ----
  authSession,       \* the supabase session: [access_token], or null
  tokenItem,         \* AsyncStorage item celery_auth_token: [token], or null
  userItem,          \* AsyncStorage item celery_current_user: [id], or null
  goalPc,            \* where the call of createGoal stands
  authToken,         \* the token makeAuthenticatedRequest read: [token], or null
  authStatus,        \* the status that answered the authenticated request, or 0
  authError,         \* the error makeAuthenticatedRequest threw, or ""
  posts,             \* the POST /goals requests the call has sent
  goalCalls,         \* calls of createGoal made so far
  loginPc,           \* where the call of login or register stands
  signIns,           \* sign-ins so far: each gives a new access token
  \* ---- MacroTracker's persistence and Dashboard (React state, AsyncStorage) ----
  userId,            \* MacroTracker's userId: 'guest' until getCurrentUser resolved
  selectedDate,      \* MacroTracker's selectedDate
  currentGoal,       \* MacroTracker's currentGoal: MacroGoal | null
  storage,           \* AsyncStorage: key -> [json] of the item, or null
  pending,           \* the AsyncStorage calls not completed yet, oldest first
  awaited,           \* the promises the components await: getCurrentUser, the loads
  todayMeals,        \* Dashboard's todayMeals
  origin,            \* for each meal or goal id: <<userId, selectedDate>> it was made under
  dateChanges,       \* changes of the date input so far
  listChanges        \* changes of the meal list or the goal made by the user so far

wtVars == <<loaded, currentWorkout, workoutHistory, workoutName,
            selectedExercise, startTime, clock, removeAlert>>

tkVars == <<tasks, tkCall, tkPrev, progress>>

wkVars == <<history, now, tz, wkPc, checkDate, currentStreak, summary, trends>>

fmVars == <<currentPage, meals, showAddMeal, editingMealId, newMeal, mealAlert, mealClock,
            goalType, targetValue, startDate, endDate, submitting, error,
            createGoalCalls>>

gvVars == <<values, validation>>

fnVars == <<call, returned>>

auVars == <<authSession, tokenItem, userItem, goalPc, authToken, authStatus, authError,
            posts, goalCalls, loginPc, signIns>>

psVars == <<userId, selectedDate, currentGoal, storage, pending, awaited, todayMeals, origin,
            dateChanges, listChanges>>

vars == <<wtVars, tkVars, wkVars, fmVars, gvVars, fnVars, auVars, psVars>>

\* what the handlers of one component leave alone: the other components
WtFrame == UNCHANGED <<tkVars, wkVars, fmVars, gvVars, fnVars, auVars, psVars>>

TkFrame == UNCHANGED <<wtVars, wkVars, fmVars, gvVars, fnVars, auVars, psVars>>

WkFrame == UNCHANGED <<wtVars, tkVars, fmVars, gvVars, fnVars, auVars, psVars>>

FmFrame == UNCHANGED <<wtVars, tkVars, wkVars, gvVars, fnVars, auVars, psVars>>

GvFrame == UNCHANGED <<wtVars, tkVars, wkVars, fmVars, fnVars, auVars, psVars>>

FnFrame == UNCHANGED <<wtVars, tkVars, wkVars, fmVars, gvVars, auVars, psVars>>

AuFrame == UNCHANGED <<wtVars, tkVars, wkVars, fmVars, gvVars, fnVars, psVars>>

\* the persistence handlers also leave the forms and the auth stores alone
PsFrame == UNCHANGED <<wtVars, tkVars, wkVars, gvVars, fnVars, auVars,
                       showAddMeal, editingMealId, newMeal, mealAlert,
                       goalType, targetValue, startDate, endDate, submitting, error,
                       createGoalCalls>>

-----------------------------------------------------------------------------
(* Generic helpers *)

Null == [null |-> TRUE]

Max(a, b) == IF a >= b THEN a ELSE b

Min(a, b) == IF a <= b THEN a ELSE b

RECURSIVE SumSeq(_)
SumSeq(s) == IF s = <<>> THEN 0 ELSE Head(s) + SumSeq(Tail(s))

\* Array.prototype.map
MapSeq(s, F(_)) == [i \in 1..Len(s) |-> F(s[i])]

\* Array.prototype.filter
FilterSeq(s, P(_)) == SelectSeq(s, P)

\* Math.round(a / b) for a >= 0, b > 0 (halves round up)
RoundDiv(a, b) == (2 * a + b) \div (2 * b)

\* String.prototype.trim on a sequence of characters
RECURSIVE TrimLeft(_)
TrimLeft(s) == IF s # <<>> /\ Head(s) = " " THEN TrimLeft(Tail(s)) ELSE s

RECURSIVE TrimRight(_)
TrimRight(s) ==
  IF s # <<>> /\ s[Len(s)] = " " THEN TrimRight(SubSeq(s, 1, Len(s) - 1)) ELSE s

Trim(s) == TrimRight(TrimLeft(s))

\* the lists of at most n elements of pool
ListsOf(pool, n) == UNION {[1..k -> pool] : k \in 0..n}

-----------------------------------------------------------------------------
(* Bounds of the model *)

MaxClock == 4        \* the clock stops after this many ticks
MaxExercises == 2    \* exercises in the workout being edited
MaxSets == 2         \* sets per exercise
MaxHistory == 2      \* sessions in workoutHistory
TickMs == 30000      \* milliseconds per clock tick
MaxTasks == 2        \* tasks in a daily task list
MaxValue == 3        \* largest counter value the model follows
MaxProgressTasks == 3  \* tasks in a list given to computeDailyProgress
MaxSessions == 2     \* sessions in a history given to workoutUtils
MaxDay == 7          \* session dates and now range over FirstDay..FirstDay + MaxDay
MaxStreak == 5       \* iterations of the streak loop the model follows
MaxMealClock == 2    \* milliseconds the MacroTracker clock runs: meals ever added
MaxSubmits == 2      \* calls of createGoal the model follows
MaxGoalDay == 2      \* the goal form's dates range over days 1..MaxGoalDay
MaxMeals == 3          \* meals in a list given to the getTotal functions
MaxInlineDays == 11    \* days a history given to the screen's memos may span
MaxGoalCalls == 2      \* calls of GoalsService.createGoal the model follows
MaxSignIns == 2        \* sign-ins (by login or register) the model follows
MaxDateChanges == 2    \* changes of MacroTracker's date input the model follows
MaxListChanges == 2    \* changes of the meal list or the goal made by the user
VolumeScale == 2     \* a session's totalVolume is counted in 1/VolumeScale units
MaxTrendSessions == 3  \* sessions in a history given to computeLocalTrends

-----------------------------------------------------------------------------
(* WorkoutTracker screen *)

MsPerMinute == 60000

\* new Date().toISOString().split('T')[0]: the UTC calendar day of the clock
TodayIso == [kind |-> "iso", day |-> (clock * TickMs) \div (24 * 60 * MsPerMinute)]

\* values the numeric inputs hand to updateSet (parseInt(text) || 0)
SetValues == {0, 5}

WorkoutNames == {<<>>, <<" ">>, <<"L">>}

ExerciseNames == {"", "Bench Press"}

SessionSets(session) ==
  SumSeq([i \in 1..Len(session.exercises) |-> Len(session.exercises[i].sets)])

ExerciseVolume(ex) ==
  SumSeq([j \in 1..Len(ex.sets) |-> ex.sets[j].reps * ex.sets[j].weight])

SessionVolume(session) ==
  SumSeq([i \in 1..Len(session.exercises) |-> ExerciseVolume(session.exercises[i])])

SampleWorkouts ==
  << [ id |-> "1", name |-> "Upper Body Strength", date |-> TodayIso,
       duration |-> 45, totalSets |-> 12, totalVolume |-> 2500,
       exercises |-> <<
         [ id |-> "1",
           sets |-> << [id |-> "1", reps |-> 10, weight |-> 135, completed |-> TRUE],
                       [id |-> "2", reps |-> 8,  weight |-> 155, completed |-> TRUE],
                       [id |-> "3", reps |-> 6,  weight |-> 175, completed |-> TRUE] >> ]
       >> ] >>

WtInit ==
  /\ loaded = FALSE
  /\ currentWorkout = Null
  /\ workoutHistory = <<>>
  /\ workoutName = <<>>
  /\ selectedExercise = ""
  /\ startTime = Null
  /\ clock = 0
  /\ removeAlert = Null

\* Two taps are never handled within the same tick: a handler that reads
\* Date.now() leaves the clock at least one tick later.
Elapse == clock < MaxClock /\ clock' = clock + 1

\* time passes
Tick ==
  /\ clock < MaxClock
  /\ clock' = clock + 1
  /\ UNCHANGED <<loaded, currentWorkout, workoutHistory, workoutName,
                 selectedExercise, startTime, removeAlert>>
  /\ WtFrame

\* useEffect(() => { loadWorkoutHistory(); }, [])
loadWorkoutHistory ==
  /\ ~loaded
  /\ loaded' = TRUE
  /\ workoutHistory' = SampleWorkouts
  /\ UNCHANGED <<currentWorkout, workoutName, selectedExercise, startTime,
                 clock, removeAlert>>
  /\ WtFrame

\* the screen takes input once mounted and while no alert is open
Interactive == loaded /\ removeAlert = Null

setWorkoutName ==
  /\ Interactive /\ currentWorkout = Null
  /\ \E n \in WorkoutNames : workoutName' = n
  /\ UNCHANGED <<loaded, currentWorkout, workoutHistory, selectedExercise,
                 startTime, clock, removeAlert>>
  /\ WtFrame

startNewWorkout ==
  /\ Interactive /\ currentWorkout = Null
  /\ Trim(workoutName) # <<>>
  /\ currentWorkout' = [ id |-> clock, name |-> workoutName, date |-> TodayIso,
                         duration |-> 0, exercises |-> <<>>,
                         totalSets |-> 0, totalVolume |-> 0 ]
  /\ startTime' = [t |-> clock]
  /\ workoutName' = <<>>
  /\ Elapse
  /\ UNCHANGED <<loaded, workoutHistory, selectedExercise, removeAlert>>
  /\ WtFrame

FinishedWorkout(w, duration) ==
  [w EXCEPT !.duration = duration,
            !.totalSets = SessionSets(w),
            !.totalVolume = SessionVolume(w)]

finishWorkout ==
  /\ Interactive /\ currentWorkout # Null
  /\ Len(workoutHistory) < MaxHistory
  /\ LET duration == IF startTime # Null
                     THEN RoundDiv((clock - startTime.t) * TickMs, MsPerMinute)
                     ELSE 0
     IN workoutHistory' = <<FinishedWorkout(currentWorkout, duration)>> \o workoutHistory
  /\ currentWorkout' = Null
  /\ startTime' = Null
  /\ UNCHANGED <<loaded, workoutName, selectedExercise, clock, removeAlert>>
  /\ WtFrame

setSelectedExercise ==
  /\ Interactive /\ currentWorkout # Null
  /\ \E e \in ExerciseNames \ {""} : selectedExercise' = e
  /\ UNCHANGED <<loaded, currentWorkout, workoutHistory, workoutName,
                 startTime, clock, removeAlert>>
  /\ WtFrame

NewSet == [id |-> clock, reps |-> 0, weight |-> 0, completed |-> FALSE]

addExercise ==
  /\ Interactive
  /\ selectedExercise # "" /\ currentWorkout # Null
  /\ Len(currentWorkout.exercises) < MaxExercises
  /\ currentWorkout' =
       [currentWorkout EXCEPT !.exercises =
          Append(@, [id |-> clock, sets |-> <<NewSet>>])]
  /\ selectedExercise' = ""
  /\ Elapse
  /\ UNCHANGED <<loaded, workoutHistory, workoutName, startTime, removeAlert>>
  /\ WtFrame

ExerciseIds == {currentWorkout.exercises[i].id : i \in 1..Len(currentWorkout.exercises)}

SetIds(exerciseId) ==
  UNION { {currentWorkout.exercises[i].sets[j].id :
             j \in 1..Len(currentWorkout.exercises[i].sets)} :
          i \in {k \in 1..Len(currentWorkout.exercises) :
                   currentWorkout.exercises[k].id = exerciseId} }

addSet ==
  /\ Interactive /\ currentWorkout # Null
  /\ \E exerciseId \in ExerciseIds :
       /\ \A i \in 1..Len(currentWorkout.exercises) :
            currentWorkout.exercises[i].id = exerciseId
              => Len(currentWorkout.exercises[i].sets) < MaxSets
       /\ LET AddTo(ex) == IF ex.id = exerciseId
                           THEN [ex EXCEPT !.sets = Append(@, NewSet)]
                           ELSE ex
          IN currentWorkout' =
               [currentWorkout EXCEPT !.exercises = MapSeq(@, AddTo)]
  /\ Elapse
  /\ UNCHANGED <<loaded, workoutHistory, workoutName, selectedExercise,
                 startTime, removeAlert>>
  /\ WtFrame

updateSet ==
  /\ Interactive /\ currentWorkout # Null
  /\ \E exerciseId \in ExerciseIds : \E setId \in SetIds(exerciseId) :
     \E field \in {"reps", "weight"} : \E value \in SetValues :
       LET UpdSet(set) == IF set.id = setId
                          THEN [set EXCEPT ![field] = value]
                          ELSE set
           UpdEx(ex) == IF ex.id = exerciseId
                        THEN [ex EXCEPT !.sets = MapSeq(@, UpdSet)]
                        ELSE ex
       IN /\ currentWorkout' = [currentWorkout EXCEPT !.exercises = MapSeq(@, UpdEx)]
          /\ currentWorkout' # currentWorkout
  /\ UNCHANGED <<loaded, workoutHistory, workoutName, selectedExercise,
                 startTime, clock, removeAlert>>
  /\ WtFrame

toggleSetComplete ==
  /\ Interactive /\ currentWorkout # Null
  /\ \E exerciseId \in ExerciseIds : \E setId \in SetIds(exerciseId) :
       LET TogSet(set) == IF set.id = setId
                          THEN [set EXCEPT !.completed = ~@]
                          ELSE set
           TogEx(ex) == IF ex.id = exerciseId
                        THEN [ex EXCEPT !.sets = MapSeq(@, TogSet)]
                        ELSE ex
       IN currentWorkout' = [currentWorkout EXCEPT !.exercises = MapSeq(@, TogEx)]
  /\ UNCHANGED <<loaded, workoutHistory, workoutName, selectedExercise,
                 startTime, clock, removeAlert>>
  /\ WtFrame

\* removeExercise opens an alert whose Remove button closes over currentWorkout
removeExercise ==
  /\ Interactive /\ currentWorkout # Null
  /\ \E exerciseId \in ExerciseIds :
       removeAlert' = [workout |-> currentWorkout, exerciseId |-> exerciseId]
  /\ UNCHANGED <<loaded, currentWorkout, workoutHistory, workoutName,
                 selectedExercise, startTime, clock>>
  /\ WtFrame

removeExerciseCancel ==
  /\ removeAlert # Null
  /\ removeAlert' = Null
  /\ UNCHANGED <<loaded, currentWorkout, workoutHistory, workoutName,
                 selectedExercise, startTime, clock>>
  /\ WtFrame

removeExerciseConfirm ==
  /\ removeAlert # Null
  /\ LET Keep(ex) == ex.id # removeAlert.exerciseId
     IN currentWorkout' =
          [removeAlert.workout EXCEPT !.exercises = FilterSeq(@, Keep)]
  /\ removeAlert' = Null
  /\ UNCHANGED <<loaded, workoutHistory, workoutName, selectedExercise,
                 startTime, clock>>
  /\ WtFrame

WtNext ==
  \/ Tick
  \/ loadWorkoutHistory
  \/ setWorkoutName
  \/ startNewWorkout
  \/ finishWorkout
  \/ setSelectedExercise
  \/ addExercise
  \/ addSet
  \/ updateSet
  \/ toggleSetComplete
  \/ removeExercise
  \/ removeExerciseCancel
  \/ removeExerciseConfirm

(* C1: every session in workoutHistory has totalSets equal to the number of  *)
(* sets in its exercises and totalVolume equal to the sum of reps * weight   *)
(* over those sets.  The session seeded by loadWorkoutHistory breaks it.     *)
C1_HistoryTotalsConsistent ==
  \A i \in 1..Len(workoutHistory) :
    LET w == workoutHistory[i]
        allSets == {<<e, k>> \in (1..Len(w.exercises)) \X (1..(MaxSets + 3)) :
                      k <= Len(w.exercises[e].sets)}
        Vol[S \in SUBSET allSets] ==
          IF S = {} THEN 0
          ELSE LET p == CHOOSE q \in S : TRUE
               IN w.exercises[p[1]].sets[p[2]].reps * w.exercises[p[1]].sets[p[2]].weight
                    + Vol[S \ {p}]
    IN /\ w.totalSets = Cardinality(allSets)
       /\ w.totalVolume = Vol[allSets]

-----------------------------------------------------------------------------
(* Dates.  An instant is a number of hours since 1970-01-01T00:00Z.  A date  *)
(* string is either a date-only ISO string, naming a day by its number since *)
(* 1970-01-01, or text that is no date.                                      *)

TrendWindow == 10  \* .slice(-10): the days the screen's trend chart keeps

HoursPerDay == 24

Invalid == [invalid |-> TRUE]

IsoDate(day) == [kind |-> "iso", day |-> day]

BadDate == [kind |-> "bad"]

\* new Date(string): a date-only ISO string is UTC midnight of its day
ParseDate(str) == IF str.kind = "iso" THEN [t |-> str.day * HoursPerDay] ELSE Invalid

\* the local calendar day of an instant
LocalDay(d, zone) == (d.t + zone) \div HoursPerDay

\* Date.prototype.getDay: 0 is Sunday; 1970-01-01 was a Thursday
GetDay(d, zone) == (LocalDay(d, zone) + 4) % 7

\* Date.prototype.setHours(0, 0, 0, 0): local midnight of the same local day
SetHoursZero(d, zone) ==
  IF d = Invalid THEN Invalid ELSE [t |-> LocalDay(d, zone) * HoursPerDay - zone]

\* d.setDate(d.getDate() - k): the same local time, k days earlier
MinusDays(d, k) == IF d = Invalid THEN Invalid ELSE [t |-> d.t - k * HoursPerDay]

\* Date.prototype.toDateString: the local calendar day, or 'Invalid Date'
ToDateString(d, zone) ==
  IF d = Invalid THEN [text |-> "Invalid Date"] ELSE [localDay |-> LocalDay(d, zone)]

\* a >= b and a <= b on Dates: false when either is an Invalid Date
DateGe(a, b) == a # Invalid /\ b # Invalid /\ a.t >= b.t

DateLe(a, b) == a # Invalid /\ b # Invalid /\ a.t <= b.t

-----------------------------------------------------------------------------
(* workoutUtils *)

\* mutant: Sunday is not special-cased (dayIndex - 1 for every day)
DiffToMonday_NoSunday(dayIndex) == dayIndex - 1

DiffToMonday(dayIndex) == IF dayIndex = 0 THEN 6 ELSE dayIndex - 1

StartOfWeek ==
  IF now = Invalid THEN Invalid
  ELSE MinusDays(SetHoursZero(now, tz), DiffToMonday(GetDay(now, tz)))

\* mutant: a date that does not parse passes the filter
InThisWeek_UnparsedPasses(w) ==
  LET d == ParseDate(w.date) IN d = Invalid \/ (DateGe(d, StartOfWeek) /\ DateLe(d, now))

InThisWeek(w) ==
  LET d == ParseDate(w.date) IN DateGe(d, StartOfWeek) /\ DateLe(d, now)

WorkoutsThisWeek == FilterSeq(history, InThisWeek)

TotalMinutes(ws) == SumSeq([i \in 1..Len(ws) |-> ws[i].duration])

\* mutant: only this week's workouts feed the streak
CompletedDates_ThisWeek ==
  {ToDateString(ParseDate(WorkoutsThisWeek[i].date), tz) : i \in 1..Len(WorkoutsThisWeek)}

CompletedDates == {ToDateString(ParseDate(history[i].date), tz) : i \in 1..Len(history)}

WkIdle ==
  /\ history = <<>> /\ now = Invalid /\ tz = 0 /\ wkPc = "idle"
  /\ checkDate = Invalid /\ currentStreak = 0 /\ summary = Null /\ trends = Null

\* lines 32-50: everything up to the while loop
computeWeeklySummary ==
  /\ wkPc = "idle" /\ trends = Null
  /\ summary' = [completedThisWeek |-> Len(WorkoutsThisWeek),
                 totalMinutes |-> TotalMinutes(WorkoutsThisWeek)]
  /\ currentStreak' = 0
  /\ checkDate' = SetHoursZero(now, tz)
  /\ wkPc' = "streak"
  /\ UNCHANGED <<history, now, tz, trends>>
  /\ WkFrame

\* lines 51-54: one iteration of the while loop
StreakStep ==
  /\ wkPc = "streak"
  /\ ToDateString(checkDate, tz) \in CompletedDates
  /\ currentStreak < MaxStreak
  /\ currentStreak' = currentStreak + 1
  /\ checkDate' = MinusDays(checkDate, 1)
  /\ UNCHANGED <<history, now, tz, wkPc, summary, trends>>
  /\ WkFrame

\* line 56: the loop condition fails and the function returns
StreakReturn ==
  /\ wkPc = "streak"
  /\ ToDateString(checkDate, tz) \notin CompletedDates
  /\ wkPc' = "done"
  /\ UNCHANGED <<history, now, tz, checkDate, currentStreak, summary, trends>>
  /\ WkFrame

\* Date.prototype.toISOString().split('T')[0]: the UTC day; throws a
\* RangeError on an Invalid Date
Threw == [threw |-> "RangeError"]

ToIsoDay(d) == IF d = Invalid THEN Threw ELSE IsoDate(d.t \div HoursPerDay)

\* a volume of n units: weights come from parseInt or, for cardio sets, from
\* parseFloat, so that a volume need not be a whole number
Units(n) == n * VolumeScale

\* lines 61-66: the map, as its entries in insertion order; the loop ends
\* early when toISOString throws
RECURSIVE TrendMap(_, _)
TrendMap(ws, map) ==
  IF ws = <<>> THEN [threw |-> FALSE, map |-> map]
  ELSE LET w == Head(ws)
           key == ToIsoDay(ParseDate(w.date))
       IN IF key = Threw THEN [threw |-> TRUE, map |-> map]
          ELSE IF \E i \in 1..Len(map) : map[i].key = key
            THEN TrendMap(Tail(ws),
                   [i \in 1..Len(map) |->
                      IF map[i].key = key
                        THEN [map[i] EXCEPT !.volume = @ + w.totalVolume,
                                            !.sets = @ + w.totalSets]
                        ELSE map[i]])
            ELSE TrendMap(Tail(ws),
                   Append(map, [key |-> key, volume |-> w.totalVolume,
                                sets |-> w.totalSets]))

\* Array.prototype.sort with (a, b) => time(a[0]) - time(b[0]): stable
RECURSIVE InsertByDate(_, _)
InsertByDate(sorted, e) ==
  IF sorted = <<>> THEN <<e>>
  ELSE IF ParseDate(e.key).t - ParseDate(sorted[Len(sorted)].key).t >= 0
         THEN Append(sorted, e)
         ELSE Append(InsertByDate(SubSeq(sorted, 1, Len(sorted) - 1), e),
                     sorted[Len(sorted)])

\* mutant: the entries are left in insertion order
SortByDate_InsertionOrder(es) == es

RECURSIVE SortByDate(_)
SortByDate(es) ==
  IF es = <<>> THEN <<>>
  ELSE InsertByDate(SortByDate(SubSeq(es, 1, Len(es) - 1)), es[Len(es)])

\* mutant: the first entry's volume is taken for the maximum
MaxVolumeOf_First(es, m) == IF es = <<>> THEN m ELSE Head(es).volume

\* entries.reduce((m, [, v]) => Math.max(m, v.volume), 0)
RECURSIVE MaxVolumeOf(_, _)
MaxVolumeOf(es, m) ==
  IF es = <<>> THEN m ELSE MaxVolumeOf(Tail(es), Max(m, Head(es).volume))

computeLocalTrends(ws) ==
  LET built == TrendMap(ws, <<>>) IN
  IF built.threw THEN Threw
  ELSE LET entries == SortByDate(built.map)
           m == MaxVolumeOf(entries, 0)
       IN [entries |-> entries, maxVolume |-> IF m = 0 THEN Units(1) ELSE m]

CallComputeLocalTrends ==
  /\ wkPc = "idle" /\ trends = Null
  /\ trends' = computeLocalTrends(history)
  /\ UNCHANGED <<history, now, tz, wkPc, checkDate, currentStreak, summary>>
  /\ WkFrame

\* ---- WorkoutTracker screen: the weeklySummary and localTrends memos ----

\* Array.prototype.slice(-n)
LastN(s, n) == IF Len(s) <= n THEN s ELSE SubSeq(s, Len(s) - n + 1, Len(s))

\* part_005 lines 1046-1059
localTrends(ws) ==
  LET built == TrendMap(ws, <<>>) IN
  IF built.threw THEN Threw
  ELSE LET entries == LastN(SortByDate(built.map), TrendWindow)
           m == MaxVolumeOf(entries, 0)
       IN [entries |-> entries, maxVolume |-> IF m = 0 THEN Units(1) ELSE m]

\* lines 1037-1040: the while loop, for a checkDate that is a valid date
RECURSIVE StreakFrom(_, _, _)
StreakFrom(dates, check, zone) ==
  IF ToDateString(check, zone) \in dates
    THEN 1 + StreakFrom(dates, MinusDays(check, 1), zone)
    ELSE 0

\* part_005 lines 1014-1043, with `at` the instant new Date() gives
weeklySummary(ws, at, zone) ==
  LET dayIndex == GetDay(at, zone)
      diffToMonday == IF dayIndex = 0 THEN 6 ELSE dayIndex - 1
      startOfWeek == MinusDays(SetHoursZero(at, zone), diffToMonday)
      inWeek == {i \in 1..Len(ws) :
                   LET d == ParseDate(ws[i].date)
                   IN  DateGe(d, startOfWeek) /\ DateLe(d, at)}
      completedDates == {ToDateString(ParseDate(ws[i].date), zone) : i \in 1..Len(ws)}
  IN [completedThisWeek |-> Cardinality(inWeek),
      totalMinutes |-> SumSeq([i \in 1..Len(ws) |->
                                 IF i \in inWeek THEN ws[i].duration ELSE 0]),
      currentStreak |-> StreakFrom(completedDates, SetHoursZero(at, zone), zone)]

\* a render of the screen: both memos are computed from workoutHistory
RenderMemos ==
  /\ call = Null
  /\ call' = [fn |-> "WorkoutTracker"]
  /\ returned' = [weeklySummary |-> weeklySummary(history, now, tz),
                  localTrends |-> localTrends(history)]
  /\ FnFrame

\* 1970-01-04, a Sunday: the days of the model are that Sunday, the week
\* from Monday 1970-01-05 to Sunday 1970-01-11, and the days after it
FirstDay == 3

ModelDays == FirstDay..(FirstDay + MaxDay)

SessionDates == {IsoDate(d) : d \in ModelDays} \cup {BadDate}

\* computeWeeklySummary reads date and duration: each date comes with a
\* duration of its own, so that totalMinutes tells which sessions were summed
DurationOn(date) == IF date.kind = "iso" THEN 10 * (date.day - FirstDay + 1) ELSE 5

WeeklySessions ==
  {[date |-> d, duration |-> DurationOn(d), totalVolume |-> 100, totalSets |-> 4] :
     d \in SessionDates}

\* computeLocalTrends reads date, totalVolume and totalSets; a volume is
\* negative (negative reps), zero, a fraction of a unit or whole units
TrendDates == {IsoDate(FirstDay), IsoDate(FirstDay + 1), BadDate}

TrendSessions ==
  [date : TrendDates, duration : {30},
   totalVolume : {0 - Units(50), 0, 1, Units(100)}, totalSets : {2, 4}]

\* the days a history of the screen may hold a workout on
InlineDays == FirstDay..(FirstDay + MaxInlineDays - 1)

\* one finished workout per day of `days`, the oldest with the largest
\* volume, in the order `order` of the days
InlineHistory(days, order) ==
  [i \in 1..Len(order) |->
     [date |-> IsoDate(order[i]), duration |-> 30,
      totalVolume |-> Units(FirstDay + MaxInlineDays - order[i]), totalSets |-> 3]]

\* the days of a set in ascending order
RECURSIVE Ascending(_)
Ascending(days) ==
  IF days = {} THEN <<>>
  ELSE LET first == CHOOSE d \in days : \A e \in days : d <= e
       IN  <<first>> \o Ascending(days \ {first})

Reverse(s) == [i \in 1..Len(s) |-> s[Len(s) + 1 - i]]

\* finishWorkout puts the new workout first: newest first, or oldest first
InlineHistories ==
  {InlineHistory(days, Reverse(Ascending(days))) : days \in SUBSET InlineDays}
    \cup {InlineHistory(days, Ascending(days)) : days \in SUBSET InlineDays}

\* nowDate: noon or midnight UTC of a day, or an Invalid Date
NowDates == {[t |-> d * HoursPerDay + h] : d \in ModelDays, h \in {0, 12}} \cup {Invalid}

TimeZones == {-12, 0, 12}

-----------------------------------------------------------------------------
(* dailyGoalsUtils *)

\* An optional field that is unset is absent from the record.
Has(t, f) == f \in DOMAIN t

\* { ...t, [f]: v }
With(t, f, v) == [g \in DOMAIN t \cup {f} |-> IF g = f THEN v ELSE t[g]]

\* t.completed as a condition: undefined and false are falsy
Truthy(t, f) == Has(t, f) /\ t[f] = TRUE

\* t[f] || 0
OrZero(t, f) == IF Has(t, f) THEN t[f] ELSE 0

RECURSIVE ProgressLoop(_, _, _)
ProgressLoop(ts, total, achieved) ==
  IF ts = <<>> THEN <<total, achieved>>
  ELSE LET t == Head(ts) IN
    IF t.type = "checkbox"
      THEN ProgressLoop(Tail(ts), total + 1,
                        IF Truthy(t, "completed") THEN achieved + 1 ELSE achieved)
    ELSE IF t.type = "counter"
      THEN LET target == OrZero(t, "target")
               value == OrZero(t, "value")
           IN IF target > 0
                THEN ProgressLoop(Tail(ts), total + 1,
                                  IF value >= target THEN achieved + 1 ELSE achieved)
                ELSE ProgressLoop(Tail(ts), total, achieved)
    ELSE ProgressLoop(Tail(ts), total, achieved)

\* mutant: Math.floor in place of Math.round
computeDailyProgress_Floor(ts) ==
  IF Len(ts) = 0 THEN 0
  ELSE LET r == ProgressLoop(ts, 0, 0)
       IN IF r[1] = 0 THEN 0 ELSE Min(100, (r[2] * 100) \div r[1])

computeDailyProgress(ts) ==
  IF Len(ts) = 0 THEN 0
  ELSE LET r == ProgressLoop(ts, 0, 0)
           total == r[1]
           achieved == r[2]
       IN IF total = 0 THEN 0
          ELSE Min(100, RoundDiv(achieved * 100, total))

\* mutant: the matching task is marked completed instead of flipped
toggleCheckboxTask_SetTrue(ts, id) ==
  [i \in 1..Len(ts) |->
     IF ts[i].id = id THEN With(ts[i], "completed", TRUE) ELSE ts[i]]

toggleCheckboxTask(ts, id) ==
  [i \in 1..Len(ts) |->
     IF ts[i].id = id
       THEN With(ts[i], "completed", ~Truthy(ts[i], "completed"))
       ELSE ts[i]]

\* mutant: the Math.max(0, ...) floor is missing
updateCounterTask_NoFloor(ts, id, delta) ==
  [i \in 1..Len(ts) |->
     IF ts[i].id # id THEN ts[i]
     ELSE With(ts[i], "value", OrZero(ts[i], "value") + delta)]

\* mutant: the matching task is rebuilt without the spread of its fields
updateCounterTask_NoSpread(ts, id, delta) ==
  [i \in 1..Len(ts) |->
     IF ts[i].id # id THEN ts[i]
     ELSE [id |-> ts[i].id, type |-> ts[i].type,
           value |-> Max(0, OrZero(ts[i], "value") + delta)]]

updateCounterTask(ts, id, delta) ==
  [i \in 1..Len(ts) |->
     IF ts[i].id # id THEN ts[i]
     ELSE With(ts[i], "value", Max(0, OrZero(ts[i], "value") + delta))]

TaskIds == {"a", "b"}

\* toggleCheckboxTask and updateCounterTask never read `type`: the lists they
\* are given hold checkbox tasks "a" and counter tasks "b", in any number and
\* order, with the optional fields set or unset.
ToggleTasks ==
  {[id |-> "a", type |-> "checkbox"]}
    \cup [id : {"a"}, type : {"checkbox"}, completed : BOOLEAN]
    \cup {[id |-> "b", type |-> "counter", target |-> 1]}
    \cup [id : {"b"}, type : {"counter"}, target : {1}, value : {0, 1}]

\* computeDailyProgress never reads `id`
ProgressTasks ==
  {[id |-> "a", type |-> "checkbox"]}
    \cup [id : {"a"}, type : {"checkbox"}, completed : BOOLEAN]
    \cup {[id |-> "b", type |-> "counter"]}
    \cup [id : {"b"}, type : {"counter"}, target : {0, 2}]
    \cup [id : {"b"}, type : {"counter"}, value : {0, 3}]
    \cup [id : {"b"}, type : {"counter"}, target : {0, 2}, value : {0, 1, 2, 3}]

Deltas == {-(MaxValue + 1), -1, 1, 2}

TkIdle == tasks = <<>> /\ tkCall = Null /\ tkPrev = Null /\ progress = 0

CallToggle ==
  /\ \E id \in TaskIds :
       /\ tasks' = toggleCheckboxTask(tasks, id)
       /\ tkCall' = [op |-> "toggle", id |-> id, delta |-> 0]
  /\ tkPrev' = tkCall
  /\ UNCHANGED progress
  /\ TkFrame

CallUpdateCounter ==
  /\ \E id \in TaskIds : \E delta \in Deltas :
       /\ \A i \in 1..Len(tasks) : OrZero(tasks[i], "value") + delta <= MaxValue
       /\ tasks' = updateCounterTask(tasks, id, delta)
       /\ tkCall' = [op |-> "update", id |-> id, delta |-> delta]
  /\ tkPrev' = tkCall
  /\ UNCHANGED progress
  /\ TkFrame

CallComputeProgress ==
  /\ tkCall = Null
  /\ progress' = computeDailyProgress(tasks)
  /\ tkCall' = [op |-> "progress", id |-> "", delta |-> 0]
  /\ UNCHANGED <<tasks, tkPrev>>
  /\ TkFrame

(* C2: updateCounterTask(tasks, id, delta) sets the value of every task with  *)
(* that id to max(0, (value or 0) + delta): never below 0, and with no upper  *)
(* clamp (the sum itself whenever it is not negative).                        *)
C2_UpdateCounterFloorsAtZero ==
  [][tkCall'.op = "update" =>
       \A i \in 1..Len(tasks) :
         tasks[i].id = tkCall'.id =>
           LET old == IF "value" \in DOMAIN tasks[i] THEN tasks[i].value ELSE 0
               sum == old + tkCall'.delta
           IN /\ "value" \in DOMAIN tasks'[i]
              /\ tasks'[i].value >= 0
              /\ (sum >= 0 => tasks'[i].value = sum)
              /\ (sum < 0 => tasks'[i].value = 0)]_vars

\* a negative delta larger than the value has been applied and left 0, after
\* an earlier call had pushed the counter past its target
C2_Witness ==
  /\ tkCall # Null /\ tkPrev # Null
  /\ tkPrev.op = "update" /\ tkPrev.delta > 1
  /\ tkCall.op = "update" /\ tkCall.delta = -(MaxValue + 1) /\ tkCall.id = tkPrev.id
  /\ \E i \in 1..Len(tasks) : tasks[i].id = tkCall.id /\ tasks[i].value = 0

\* toggling the task at index i twice, by its id
ToggledTwice(i) ==
  toggleCheckboxTask(toggleCheckboxTask(tasks, tasks[i].id), tasks[i].id)[i]

(* C3 as stated: toggleCheckboxTask applied twice with the same id returns    *)
(* the matching task to its original `completed` value, also when the field   *)
(* was unset.                                                                 *)
C3_ToggleTwiceRestoresCompleted ==
  \A i \in 1..Len(tasks) :
    /\ ("completed" \in DOMAIN ToggledTwice(i)) = ("completed" \in DOMAIN tasks[i])
    /\ "completed" \in DOMAIN tasks[i] => ToggledTwice(i).completed = tasks[i].completed

(* C3 amended: toggleCheckboxTask applied twice with the same id returns a    *)
(* boolean `completed` to its original value; a task whose `completed` was    *)
(* unset ends with completed = false (as falsy as unset, but set).            *)
C3_ToggleTwiceRestoresBoolean ==
  \A i \in 1..Len(tasks) :
    /\ "completed" \in DOMAIN ToggledTwice(i)
    /\ ToggledTwice(i).completed =
         (IF "completed" \in DOMAIN tasks[i] THEN tasks[i].completed ELSE FALSE)

\* the same id has been toggled twice in a row
C3_Witness ==
  /\ tkCall # Null /\ tkPrev # Null
  /\ tkCall.op = "toggle" /\ tkPrev = tkCall
  /\ \E i \in 1..Len(tasks) : tasks[i].id = tkCall.id /\ tasks[i].completed = FALSE

\* the tasks that count toward the total, and those among them achieved
CountedTasks ==
  {i \in 1..Len(tasks) :
     \/ tasks[i].type = "checkbox"
     \/ tasks[i].type = "counter" /\ "target" \in DOMAIN tasks[i] /\ tasks[i].target > 0}

AchievedTasks ==
  {i \in CountedTasks :
     \/ tasks[i].type = "checkbox" /\ "completed" \in DOMAIN tasks[i] /\ tasks[i].completed
     \/ tasks[i].type = "counter" /\ "value" \in DOMAIN tasks[i]
          /\ tasks[i].value >= tasks[i].target}

(* C6: computeDailyProgress returns round(achieved / counted * 100) capped at *)
(* 100 (every checkbox counted, achieved iff completed; a counter counted     *)
(* only if target > 0, achieved iff value >= target), and 0 when the list is  *)
(* empty or nothing is counted: always an integer in 0..100.                  *)
C6_DailyProgressIsRoundedShare ==
  (tkCall # Null /\ tkCall.op = "progress") =>
    LET c == Cardinality(CountedTasks)
        a == Cardinality(AchievedTasks)
    IN /\ progress \in 0..100
       /\ c = 0 => progress = 0
       /\ c > 0 => \E r \in 0..101 :
                     /\ (2 * r - 1) * c <= 200 * a /\ 200 * a < (2 * r + 1) * c
                     /\ progress = IF r > 100 THEN 100 ELSE r

\* one of three counted tasks achieved, a counter below its target among them
C6_Witness ==
  /\ tkCall # Null /\ tkCall.op = "progress" /\ progress = 33
  /\ \E i \in 1..Len(tasks) :
       /\ tasks[i].type = "counter" /\ "value" \in DOMAIN tasks[i]
       /\ "target" \in DOMAIN tasks[i]
       /\ 0 < tasks[i].value /\ tasks[i].value < tasks[i].target

-----------------------------------------------------------------------------
(* JavaScript numbers and their conversions from and to text.  A number is  *)
(* [num |-> n], NaN or Infinity; the texts of the model hold digits, signs, *)
(* blanks and letters (no decimal point, exponent or 0x prefix).            *)

NaN == [nan |-> TRUE]

Infinity == [inf |-> TRUE]

Num(n) == [num |-> n]

IsNum(v) == "num" \in DOMAIN v

DigitChars == <<"0", "1", "2", "3", "4", "5", "6", "7", "8", "9">>

IsDigit(c) == \E d \in 1..10 : DigitChars[d] = c

DigitValue(c) == (CHOOSE d \in 1..10 : DigitChars[d] = c) - 1

\* the longest prefix of s made of digits
RECURSIVE LeadingDigits(_)
LeadingDigits(s) ==
  IF s # <<>> /\ IsDigit(Head(s)) THEN <<Head(s)>> \o LeadingDigits(Tail(s)) ELSE <<>>

RECURSIVE DecimalValue(_)
DecimalValue(ds) ==
  IF ds = <<>> THEN 0
  ELSE DecimalValue(SubSeq(ds, 1, Len(ds) - 1)) * 10 + DigitValue(ds[Len(ds)])

IsSigned(t) == t # <<>> /\ Head(t) \in {"-", "+"}

Unsigned(t) == IF IsSigned(t) THEN Tail(t) ELSE t

Signed(t, n) == IF t # <<>> /\ Head(t) = "-" THEN Num(0 - n) ELSE Num(n)

\* parseInt(text): leading blanks and text after the digits are ignored
parseInt(s) ==
  LET t == TrimLeft(s)
      ds == LeadingDigits(Unsigned(t))
  IN  IF ds = <<>> THEN NaN ELSE Signed(t, DecimalValue(ds))

\* Number(text): blank text is 0; anything but an integer literal is NaN
ToNumber(s) ==
  LET t == Trim(s)
      ds == LeadingDigits(Unsigned(t))
  IN  IF t = <<>> THEN Num(0)
      ELSE IF ds # <<>> /\ ds = Unsigned(t) THEN Signed(t, DecimalValue(ds))
      ELSE NaN

RECURSIVE NatToString(_)
NatToString(n) ==
  IF n < 10 THEN <<DigitChars[n + 1]>>
  ELSE NatToString(n \div 10) \o <<DigitChars[(n % 10) + 1]>>

\* String(v) and v.toString()
NumberToString(v) ==
  IF v = NaN THEN <<"N", "a", "N">>
  ELSE IF v = Infinity THEN <<"I", "n", "f", "i", "n", "i", "t", "y">>
  ELSE IF v.num < 0 THEN <<"-">> \o NatToString(0 - v.num)
  ELSE NatToString(v.num)

-----------------------------------------------------------------------------
(* macroUtils: validateMealDraft.  A message `${label} must be a number` is *)
(* the pair of its label and the rest.                                      *)

MealFields == <<"calories", "protein", "fat", "carbs">>

FieldLabel(key) ==
  CASE key = "calories" -> "Calories"
    [] key = "protein" -> "Protein"
    [] key = "fat" -> "Fat"
    [] key = "carbs" -> "Carbs"

RECURSIVE MealFieldLoop(_, _, _)
MealFieldLoop(draft, i, errors) ==
  IF i > Len(MealFields) THEN errors
  ELSE LET key == MealFields[i]
           value == parseInt(draft[key])
       IN  MealFieldLoop(draft, i + 1,
             IF value = NaN
               THEN Append(errors, <<FieldLabel(key), " must be a number">>)
             ELSE IF value.num < 0
               THEN Append(errors, <<FieldLabel(key), " cannot be negative">>)
             ELSE errors)

\* mutant: the name is checked after the numeric fields
validateMealDraft_NameLast(draft) ==
  MealFieldLoop(draft, 1, <<>>)
    \o (IF Trim(draft.name) = <<>> THEN << <<"Meal name is required">> >> ELSE <<>>)

validateMealDraft(draft) ==
  MealFieldLoop(draft, 1,
    IF Trim(draft.name) = <<>> THEN << <<"Meal name is required">> >> ELSE <<>>)

-----------------------------------------------------------------------------
(* MacroTracker screen: the meal list and the Add / Edit Meal modal *)

EmptyDraft == [name |-> <<>>, calories |-> <<>>, protein |-> <<>>,
               fat |-> <<>>, carbs |-> <<>>]

\* texts typed into the name input
MealNameTexts == {<<>>, <<" ">>, <<"E", "g", "g">>}

\* texts typed into a numeric input: the calories input gets the texts that
\* tell the cases of parseInt apart, the other three one valid text
NumberTexts(key) ==
  IF key = "calories" THEN {<<>>, <<"-", "1">>, <<"5", "x">>, <<" ", "1", "2">>}
  ELSE {<<>>, <<"7">>}

\* toLocaleTimeString([], { hour: '2-digit', minute: '2-digit' })
LocaleTime(ms) == [minuteOfDay |-> (ms \div MsPerMinute) % (HoursPerDay * 60)]

MtInit ==
  /\ currentPage = "macro"
  /\ meals = <<>> /\ showAddMeal = FALSE /\ editingMealId = Null
  /\ newMeal = EmptyDraft /\ mealAlert = Null /\ mealClock = 0

\* an Alert is modal: nothing under it can be pressed
MtInteractive == currentPage = "macro" /\ mealAlert = Null

GfUnmounted ==
  /\ goalType = "weight_loss" /\ targetValue = <<>>
  /\ startDate = [kind |-> "empty"] /\ endDate = [kind |-> "empty"]
  /\ submitting = FALSE /\ error = Null /\ createGoalCalls = 0

GfFrame == UNCHANGED <<currentPage, goalType, targetValue, startDate, endDate, submitting,
                       error, createGoalCalls>>

\* "+ Add Meal": setShowAddMeal(true)
openAddMeal ==
  /\ MtInteractive /\ ~showAddMeal
  /\ showAddMeal' = TRUE
  /\ UNCHANGED <<meals, editingMealId, newMeal, mealAlert, mealClock>>
  /\ GfFrame /\ FmFrame

\* Cancel and onRequestClose: setShowAddMeal(false)
closeAddMeal ==
  /\ MtInteractive /\ showAddMeal
  /\ showAddMeal' = FALSE
  /\ UNCHANGED <<meals, editingMealId, newMeal, mealAlert, mealClock>>
  /\ GfFrame /\ FmFrame

\* onChangeText of the name input
setNewMealName ==
  /\ MtInteractive /\ showAddMeal
  /\ \E text \in MealNameTexts : newMeal' = [newMeal EXCEPT !.name = text]
  /\ UNCHANGED <<meals, showAddMeal, editingMealId, mealAlert, mealClock>>
  /\ GfFrame /\ FmFrame

\* onChangeText of the calories, protein, fat and carbs inputs
setNewMealNumber ==
  /\ MtInteractive /\ showAddMeal
  /\ \E i \in 1..Len(MealFields) : \E text \in NumberTexts(MealFields[i]) :
       newMeal' = [newMeal EXCEPT ![MealFields[i]] = text]
  /\ UNCHANGED <<meals, showAddMeal, editingMealId, mealAlert, mealClock>>
  /\ GfFrame /\ FmFrame

\* the meal addMeal builds from the draft at time ms
MealOfDraft(draft, ms) ==
  [id |-> NumberToString(Num(ms)), name |-> draft.name,
   calories |-> parseInt(draft.calories), protein |-> parseInt(draft.protein),
   fat |-> parseInt(draft.fat), carbs |-> parseInt(draft.carbs),
   time |-> LocaleTime(ms)]

\* mutant: addMeal without the early return
addMeal_Unchecked ==
  /\ MtInteractive /\ showAddMeal /\ editingMealId = Null
  /\ mealClock < MaxMealClock
  /\ mealClock' = mealClock + 1
  /\ meals' = Append(meals, MealOfDraft(newMeal, mealClock'))
  /\ newMeal' = EmptyDraft
  /\ showAddMeal' = FALSE
  /\ UNCHANGED <<editingMealId, mealAlert>>
  /\ GfFrame /\ FmFrame

\* the modal's save button while no meal is being edited; the clock has
\* moved on since the last meal was added
addMeal ==
  /\ MtInteractive /\ showAddMeal /\ editingMealId = Null
  /\ LET errors == validateMealDraft(newMeal) IN
       IF errors # <<>>
         THEN /\ mealAlert' = [title |-> "Error", message |-> errors[1]]
              /\ UNCHANGED <<meals, newMeal, showAddMeal, mealClock>>
         ELSE /\ mealClock < MaxMealClock
              /\ mealClock' = mealClock + 1
              /\ meals' = Append(meals, MealOfDraft(newMeal, mealClock'))
              /\ newMeal' = EmptyDraft
              /\ showAddMeal' = FALSE
              /\ UNCHANGED mealAlert
  /\ UNCHANGED editingMealId
  /\ GfFrame /\ FmFrame

\* the edit button of a listed meal
startEditMeal ==
  /\ MtInteractive /\ ~showAddMeal
  /\ \E i \in 1..Len(meals) :
       /\ editingMealId' = [id |-> meals[i].id]
       /\ newMeal' = [name |-> meals[i].name,
                      calories |-> NumberToString(meals[i].calories),
                      protein |-> NumberToString(meals[i].protein),
                      fat |-> NumberToString(meals[i].fat),
                      carbs |-> NumberToString(meals[i].carbs)]
  /\ showAddMeal' = TRUE
  /\ UNCHANGED <<meals, mealAlert, mealClock>>
  /\ GfFrame /\ FmFrame

\* meals.map(m => m.id === editingMealId ? { ...m, <draft> } : m)
EditedMeals(ms, id, draft) ==
  [i \in 1..Len(ms) |->
     IF ms[i].id = id
       THEN [ms[i] EXCEPT !.name = draft.name,
                          !.calories = parseInt(draft.calories),
                          !.protein = parseInt(draft.protein),
                          !.fat = parseInt(draft.fat),
                          !.carbs = parseInt(draft.carbs)]
     ELSE ms[i]]

\* the modal's save button while a meal is being edited
saveEditMeal ==
  /\ MtInteractive /\ showAddMeal /\ editingMealId # Null
  /\ LET errors == validateMealDraft(newMeal) IN
       IF errors # <<>>
         THEN /\ mealAlert' = [title |-> "Error", message |-> errors[1]]
              /\ UNCHANGED <<meals, editingMealId, newMeal, showAddMeal>>
         ELSE /\ meals' = EditedMeals(meals, editingMealId.id, newMeal)
              /\ editingMealId' = Null
              /\ newMeal' = EmptyDraft
              /\ showAddMeal' = FALSE
              /\ UNCHANGED mealAlert
  /\ UNCHANGED mealClock
  /\ GfFrame /\ FmFrame

\* the delete button of a listed meal: the alert's Delete button closes
\* over meals and id
deleteMeal ==
  /\ MtInteractive /\ ~showAddMeal
  /\ \E i \in 1..Len(meals) :
       mealAlert' = [title |-> "Delete Meal", meals |-> meals, id |-> meals[i].id]
  /\ UNCHANGED <<meals, showAddMeal, editingMealId, newMeal, mealClock>>
  /\ GfFrame /\ FmFrame

\* Delete: setMeals(meals.filter(meal => meal.id !== id))
deleteMealConfirm ==
  /\ currentPage = "macro" /\ mealAlert # Null /\ mealAlert.title = "Delete Meal"
  /\ meals' = SelectSeq(mealAlert.meals, LAMBDA m : m.id # mealAlert.id)
  /\ mealAlert' = Null
  /\ UNCHANGED <<showAddMeal, editingMealId, newMeal, mealClock>>
  /\ GfFrame /\ FmFrame

\* "Clear Day"
clearDay ==
  /\ MtInteractive /\ ~showAddMeal
  /\ mealAlert' = [title |-> "Clear Day"]
  /\ UNCHANGED <<meals, showAddMeal, editingMealId, newMeal, mealClock>>
  /\ GfFrame /\ FmFrame

\* Clear: setMeals([])
clearDayConfirm ==
  /\ currentPage = "macro" /\ mealAlert # Null /\ mealAlert.title = "Clear Day"
  /\ meals' = <<>>
  /\ mealAlert' = Null
  /\ UNCHANGED <<showAddMeal, editingMealId, newMeal, mealClock>>
  /\ GfFrame /\ FmFrame

\* OK of an error alert, Cancel of the other two
dismissAlert ==
  /\ currentPage = "macro" /\ mealAlert # Null
  /\ mealAlert' = Null
  /\ UNCHANGED <<meals, showAddMeal, editingMealId, newMeal, mealClock>>
  /\ GfFrame /\ FmFrame

-----------------------------------------------------------------------------
(* goalsService: validateGoalForm.  A field of values that is undefined is  *)
(* absent from the record; goal_type is a string, target_value a number or  *)
(* null, and a date one of the strings of the Dates section or ''.          *)

MaxTarget == 1000

EmptyDate == [kind |-> "empty"]

\* !values.goal_type
NoGoalType(v) == ~Has(v, "goal_type") \/ v.goal_type = ""

\* !values.start_date, !values.end_date
NoDate(v, f) == ~Has(v, f) \/ v[f] = EmptyDate

\* undefined, null or isNaN
NoTarget(v) ==
  ~Has(v, "target_value") \/ v.target_value = Null \/ v.target_value = NaN

\* target_value <= 0 || target_value > 1000
TargetOutOfRange(t) ==
  \/ t = Infinity
  \/ IsNum(t) /\ (t.num <= 0 \/ t.num > MaxTarget)

GoalTypeErrors(v) ==
  IF NoGoalType(v)
    THEN <<[field |-> "goal_type", message |-> "Goal type is required"]>>
  ELSE <<>>

TargetErrors(v) ==
  IF NoTarget(v)
    THEN <<[field |-> "target_value", message |-> "Target value is required"]>>
  ELSE IF TargetOutOfRange(v.target_value)
    THEN <<[field |-> "target_value",
            message |-> "Target value must be between 0 and 1000"]>>
  ELSE <<>>

StartDateErrors(v) ==
  IF NoDate(v, "start_date")
    THEN <<[field |-> "start_date", message |-> "Start date is required"]>>
  ELSE <<>>

EndDateErrors(v) ==
  IF NoDate(v, "end_date")
    THEN <<[field |-> "end_date", message |-> "End date is required"]>>
  ELSE <<>>

\* mutant: a start date must be strictly before the end date
DateErrors_StrictOrder(v) ==
  IF NoDate(v, "start_date") \/ NoDate(v, "end_date") THEN <<>>
  ELSE LET start == ParseDate(v.start_date)
           end == ParseDate(v.end_date)
       IN  IF start = Invalid \/ end = Invalid
             THEN <<[field |-> "date", message |-> "Invalid date format"]>>
           ELSE IF start.t >= end.t
             THEN <<[field |-> "date",
                     message |-> "Start date must be before or equal to end date"]>>
           ELSE <<>>

\* mutant: the timestamps are compared without the isFinite test
DateErrors_NoFormatCheck(v) ==
  IF NoDate(v, "start_date") \/ NoDate(v, "end_date") THEN <<>>
  ELSE LET start == ParseDate(v.start_date)
           end == ParseDate(v.end_date)
       IN  IF start # Invalid /\ end # Invalid /\ start.t > end.t
             THEN <<[field |-> "date",
                     message |-> "Start date must be before or equal to end date"]>>
           ELSE <<>>

\* the block run when both dates are given: getTime() of an Invalid Date is
\* NaN, which isFinite rejects
DateErrors(v) ==
  IF NoDate(v, "start_date") \/ NoDate(v, "end_date") THEN <<>>
  ELSE LET start == ParseDate(v.start_date)
           end == ParseDate(v.end_date)
       IN  IF start = Invalid \/ end = Invalid
             THEN <<[field |-> "date", message |-> "Invalid date format"]>>
           ELSE IF start.t > end.t
             THEN <<[field |-> "date",
                     message |-> "Start date must be before or equal to end date"]>>
           ELSE <<>>

\* mutant: validation stops at the first failing check
validateGoalForm_FirstErrorOnly(v) ==
  IF GoalTypeErrors(v) # <<>> THEN GoalTypeErrors(v)
  ELSE IF TargetErrors(v) # <<>> THEN TargetErrors(v)
  ELSE IF StartDateErrors(v) # <<>> THEN StartDateErrors(v)
  ELSE IF EndDateErrors(v) # <<>> THEN EndDateErrors(v)
  ELSE DateErrors(v)

validateGoalForm(v) ==
  GoalTypeErrors(v) \o TargetErrors(v) \o StartDateErrors(v) \o EndDateErrors(v)
    \o DateErrors(v)

\* ---- the calls of validateGoalForm the model makes ----

Undefined == [undefined |-> TRUE]

GoalTypeInputs == {Undefined, [text |-> ""], [text |-> "weight_loss"]}

TargetInputs ==
  {Undefined, Null, NaN, Infinity}
    \cup {Num(n) : n \in {-5, 0, 1, 75, MaxTarget, MaxTarget + 1, 2 * MaxTarget + 1}}

GoalDays == 1..MaxGoalDay

DateInputs == {Undefined, EmptyDate, BadDate} \cup {IsoDate(d) : d \in GoalDays}

GoalFormFields == {"goal_type", "target_value", "start_date", "end_date"}

\* the object literal with the given fields, the undefined ones left out
GoalFormOf(g, t, s, e) ==
  LET given == [goal_type |-> g, target_value |-> t, start_date |-> s, end_date |-> e]
  IN  [f \in {x \in GoalFormFields : given[x] # Undefined} |->
         IF f = "goal_type" THEN given[f].text ELSE given[f]]

GoalFormInputs ==
  {GoalFormOf(g, t, s, e) :
     g \in GoalTypeInputs, t \in TargetInputs, s \in DateInputs, e \in DateInputs}

GvIdle == values = <<>> /\ validation = Null

CallValidateGoalForm ==
  /\ validation = Null
  /\ validation' = [errors |-> validateGoalForm(values)]
  /\ UNCHANGED values
  /\ GvFrame

-----------------------------------------------------------------------------
(* GoalForm screen *)

GoalTypes == {"weight_loss", "weight_gain", "maintenance"}

\* texts typed into the target input
TargetTexts == {<<>>, <<" ", "7", "5">>, <<"7", "x">>, <<"1", "0", "0", "1">>}

\* texts typed into the date inputs
DateTexts == {EmptyDate, BadDate} \cup {IsoDate(d) : d \in GoalDays}

GfInit == currentPage = "goalsForm" /\ GfUnmounted

MtUnmounted ==
  /\ meals = <<>> /\ showAddMeal = FALSE /\ editingMealId = Null
  /\ newMeal = EmptyDraft /\ mealAlert = Null /\ mealClock = 0

MtFrame == UNCHANGED <<meals, showAddMeal, editingMealId, newMeal, mealAlert, mealClock>>

FmIdle == currentPage = "home" /\ MtUnmounted /\ GfUnmounted

setGoalType ==
  /\ currentPage = "goalsForm"
  /\ \E t \in GoalTypes : goalType' = t
  /\ UNCHANGED <<currentPage, targetValue, startDate, endDate, submitting, error,
                 createGoalCalls>>
  /\ MtFrame /\ FmFrame

setTargetValue ==
  /\ currentPage = "goalsForm"
  /\ \E text \in TargetTexts : targetValue' = text
  /\ UNCHANGED <<currentPage, goalType, startDate, endDate, submitting, error,
                 createGoalCalls>>
  /\ MtFrame /\ FmFrame

setStartDate ==
  /\ currentPage = "goalsForm"
  /\ \E text \in DateTexts : startDate' = text
  /\ UNCHANGED <<currentPage, goalType, targetValue, endDate, submitting, error,
                 createGoalCalls>>
  /\ MtFrame /\ FmFrame

setEndDate ==
  /\ currentPage = "goalsForm"
  /\ \E text \in DateTexts : endDate' = text
  /\ UNCHANGED <<currentPage, goalType, targetValue, startDate, submitting, error,
                 createGoalCalls>>
  /\ MtFrame /\ FmFrame

\* the payload handleSubmit builds; notes is never typed in, so undefined
Payload ==
  [goal_type |-> goalType, target_value |-> ToNumber(targetValue),
   start_date |-> startDate, end_date |-> endDate]

\* mutant: handleSubmit without the early return
handleSubmit_Unchecked ==
  /\ currentPage = "goalsForm" /\ ~submitting
  /\ createGoalCalls < MaxSubmits
  /\ error' = Null
  /\ submitting' = TRUE
  /\ createGoalCalls' = createGoalCalls + 1
  /\ UNCHANGED <<currentPage, goalType, targetValue, startDate, endDate>>
  /\ MtFrame /\ FmFrame

\* the submit button, disabled while submitting: up to the await
handleSubmit ==
  /\ currentPage = "goalsForm" /\ ~submitting
  /\ LET errors == validateGoalForm(Payload) IN
       IF errors # <<>>
         THEN /\ error' = [message |-> errors[1].message]
              /\ UNCHANGED <<submitting, createGoalCalls>>
         ELSE /\ createGoalCalls < MaxSubmits
              /\ error' = Null
              /\ submitting' = TRUE
              /\ createGoalCalls' = createGoalCalls + 1
  /\ UNCHANGED <<currentPage, goalType, targetValue, startDate, endDate>>
  /\ MtFrame /\ FmFrame

\* createGoal resolved: onCreated navigates to the goals list, then finally
createGoalResolved ==
  /\ currentPage = "goalsForm" /\ submitting
  /\ currentPage' = "goalsList"
  /\ submitting' = FALSE
  /\ UNCHANGED <<goalType, targetValue, startDate, endDate, error, createGoalCalls>>
  /\ MtFrame /\ FmFrame

\* createGoal rejected: the catch block shows e.message, then finally
createGoalRejected ==
  /\ currentPage = "goalsForm" /\ submitting
  /\ \E message \in {"Failed to create goal", "Session expired"} :
       error' = [message |-> message]
  /\ submitting' = FALSE
  /\ UNCHANGED <<currentPage, goalType, targetValue, startDate, endDate, createGoalCalls>>
  /\ MtFrame /\ FmFrame

-----------------------------------------------------------------------------
(* Calls of the pure utility functions: call names the function and holds   *)
(* its arguments, returned holds what it returned.                          *)

FnIdle == call = Null /\ returned = Null

\* ---- workoutUtils: computeWorkoutTotals ----

\* ex.sets.reduce((s, set) => s + (set.reps * set.weight), 0)
RECURSIVE SetsVolumeFrom(_, _)
SetsVolumeFrom(sets, s) ==
  IF sets = <<>> THEN s
  ELSE SetsVolumeFrom(Tail(sets), s + (Head(sets).reps * Head(sets).weight))

\* session.exercises.reduce((t, ex) => t + ex.sets.length, 0)
RECURSIVE TotalSetsFrom(_, _)
TotalSetsFrom(exercises, t) ==
  IF exercises = <<>> THEN t
  ELSE TotalSetsFrom(Tail(exercises), t + Len(Head(exercises).sets))

\* session.exercises.reduce((t, ex) => t + <volume of ex.sets>, 0)
RECURSIVE TotalVolumeFrom(_, _)
TotalVolumeFrom(exercises, t) ==
  IF exercises = <<>> THEN t
  ELSE TotalVolumeFrom(Tail(exercises), t + SetsVolumeFrom(Head(exercises).sets, 0))

\* mutant: only completed sets are counted
computeWorkoutTotals_CompletedOnly(session) ==
  LET done(ex) == [ex EXCEPT !.sets = SelectSeq(ex.sets, LAMBDA set : set.completed)]
      exercises == [i \in 1..Len(session.exercises) |-> done(session.exercises[i])]
  IN  [totalSets |-> TotalSetsFrom(exercises, 0),
       totalVolume |-> TotalVolumeFrom(exercises, 0)]

computeWorkoutTotals(session) ==
  [totalSets |-> TotalSetsFrom(session.exercises, 0),
   totalVolume |-> TotalVolumeFrom(session.exercises, 0)]

\* the sets of the sessions handed to computeWorkoutTotals
TotalsSets ==
  {[id |-> "s", reps |-> 10, weight |-> 50, completed |-> TRUE],
   [id |-> "s", reps |-> 8, weight |-> 60, completed |-> FALSE],
   [id |-> "s", reps |-> 0, weight |-> 50, completed |-> TRUE]}

TotalsExercises == [id : {"e"}, sets : ListsOf(TotalsSets, MaxSets)]

\* the stored totals are stale or not: computeWorkoutTotals never reads them
TotalsSessions ==
  {[id |-> "w", name |-> "W", date |-> IsoDate(FirstDay), duration |-> 30,
    exercises |-> exs, totalSets |-> stored.totalSets,
    totalVolume |-> stored.totalVolume] :
     exs \in ListsOf(TotalsExercises, MaxExercises),
     stored \in {[totalSets |-> 0, totalVolume |-> 0],
                 [totalSets |-> 12, totalVolume |-> 2500]}}

CallComputeWorkoutTotals ==
  /\ call # Null /\ call.fn = "computeWorkoutTotals" /\ returned = Null
  /\ returned' = [value |-> computeWorkoutTotals(call.session)]
  /\ UNCHANGED call
  /\ FnFrame

\* ---- macroUtils: getGoalProgress, getDaysRemaining, validateMealDraft ----

\* a number that need not be whole: n / d, with d > 0
Frac(n, d) == [n |-> n, d |-> d]

FracLe(a, b) == a.n * b.d <= b.n * a.d

\* Math.min of two numbers
FracMin(a, b) == IF FracLe(a, b) THEN a ELSE b

\* !target: undefined, null, NaN and 0 are falsy
Falsy(v) == v \in {Undefined, Null, NaN} \/ v.num = 0

\* mutant: the ratio is returned, not the percentage
getGoalProgress_Ratio(current, target) ==
  IF Falsy(target) \/ target.num <= 0 THEN Frac(0, 1)
  ELSE IF current = NaN THEN NaN
  ELSE FracMin(Frac(current.num, target.num), Frac(100, 1))

\* mutant: the percentage is not capped
getGoalProgress_NoClamp(current, target) ==
  IF Falsy(target) \/ target.num <= 0 THEN Frac(0, 1)
  ELSE IF current = NaN THEN NaN
  ELSE Frac(current.num * 100, target.num)

\* Math.min((current / target) * 100, 100); Math.min of NaN is NaN
getGoalProgress(current, target) ==
  IF Falsy(target) \/ target.num <= 0 THEN Frac(0, 1)
  ELSE IF current = NaN THEN NaN
  ELSE FracMin(Frac(current.num * 100, target.num), Frac(100, 1))

\* Math.ceil(a / b) for b > 0
CeilDiv(a, b) == 0 - ((0 - a) \div b)

\* mutant: whole days only
getDaysRemaining_Floor(goal, today) ==
  IF goal = Null THEN Num(0)
  ELSE LET end == ParseDate(goal.endDate) IN
       IF end = Invalid THEN NaN
       ELSE Num(Max(0, (end.t - today.t) \div HoursPerDay))

\* today is what new Date() gives when the function runs; getTime() of an
\* Invalid Date is NaN, and so is all that is computed from it
getDaysRemaining(goal, today) ==
  IF goal = Null THEN Num(0)
  ELSE LET end == ParseDate(goal.endDate) IN
       IF end = Invalid THEN NaN
       ELSE Num(Max(0, CeilDiv(end.t - today.t, HoursPerDay)))

\* current and target handed to getGoalProgress
ProgressCurrents == {NaN} \cup {Num(n) : n \in {-50, 0, 1, 50, 100, 200, 3000}}

ProgressTargets ==
  {Undefined, Null, NaN} \cup {Num(n) : n \in {-100, 0, 3, 50, 100, 2000}}

\* goals handed to getDaysRemaining: null, or a MacroGoal, of which only
\* endDate is read
RemainingGoals == {Null} \cup {[id |-> "g", endDate |-> d] : d \in SessionDates}

\* texts of the drafts handed to validateMealDraft
DraftNames == {<<>>, <<" ">>, <<"E", "g", "g">>, <<" ", "E", "g", "g", " ">>}

DraftNumbers ==
  {<<>>, <<"x">>, <<"-", "1">>, <<"-", "0">>, <<"5">>, <<"5", "x">>, <<" ", "1", "2">>}

MealDrafts ==
  [name : DraftNames, calories : DraftNumbers, protein : DraftNumbers,
   fat : DraftNumbers, carbs : DraftNumbers]

CallGetGoalProgress ==
  /\ call # Null /\ call.fn = "getGoalProgress" /\ returned = Null
  /\ returned' = [value |-> getGoalProgress(call.current, call.target)]
  /\ UNCHANGED call
  /\ FnFrame

CallGetDaysRemaining ==
  /\ call # Null /\ call.fn = "getDaysRemaining" /\ returned = Null
  /\ returned' = [value |-> getDaysRemaining(call.goal, call.today)]
  /\ UNCHANGED call
  /\ FnFrame

CallValidateMealDraft ==
  /\ call # Null /\ call.fn = "validateMealDraft" /\ returned = Null
  /\ returned' = [value |-> validateMealDraft(call.draft)]
  /\ UNCHANGED call
  /\ FnFrame

\* ---- macroUtils: getTotalCalories, getTotalProtein, getTotalFat, getTotalCarbs ----

\* total + meal.field on numbers
Plus(a, b) == Num(a.num + b.num)

\* ms.reduce((total, meal) => total + meal[field], 0), from the left
RECURSIVE ReduceField(_, _, _)
ReduceField(ms, field, total) ==
  IF ms = <<>> THEN total
  ELSE ReduceField(Tail(ms), field, Plus(total, Head(ms)[field]))

getTotalCalories(ms) == ReduceField(ms, "calories", Num(0))

getTotalProtein(ms) == ReduceField(ms, "protein", Num(0))

getTotalFat(ms) == ReduceField(ms, "fat", Num(0))

\* mutant: the first meal is taken for the initial value, its carbs unread
getTotalCarbs_FirstAsInitial(ms) ==
  IF ms = <<>> THEN Num(0) ELSE ReduceField(Tail(ms), "carbs", Num(0))

getTotalCarbs(ms) == ReduceField(ms, "carbs", Num(0))

TotalFns == {"getTotalCalories", "getTotalProtein", "getTotalFat", "getTotalCarbs"}

\* the meals of the totals test, a meal of zeros and a meal of small numbers
TotalMeals ==
  { [id |-> "1", name |-> "a", calories |-> Num(200), protein |-> Num(20),
     fat |-> Num(10), carbs |-> Num(15), time |-> ""],
    [id |-> "2", name |-> "b", calories |-> Num(300), protein |-> Num(30),
     fat |-> Num(5), carbs |-> Num(40), time |-> ""],
    [id |-> "3", name |-> "c", calories |-> Num(0), protein |-> Num(0),
     fat |-> Num(0), carbs |-> Num(0), time |-> ""],
    [id |-> "4", name |-> "d", calories |-> Num(1), protein |-> Num(2),
     fat |-> Num(3), carbs |-> Num(4), time |-> ""] }

TotalCalls ==
  {[fn |-> f, meals |-> [list |-> ms]] : f \in TotalFns, ms \in ListsOf(TotalMeals, MaxMeals)}

CallGetTotalCalories ==
  /\ call # Null /\ call.fn = "getTotalCalories" /\ returned = Null
  /\ returned' = [value |-> getTotalCalories(call.meals.list)]
  /\ UNCHANGED call
  /\ FnFrame

CallGetTotalProtein ==
  /\ call # Null /\ call.fn = "getTotalProtein" /\ returned = Null
  /\ returned' = [value |-> getTotalProtein(call.meals.list)]
  /\ UNCHANGED call
  /\ FnFrame

CallGetTotalFat ==
  /\ call # Null /\ call.fn = "getTotalFat" /\ returned = Null
  /\ returned' = [value |-> getTotalFat(call.meals.list)]
  /\ UNCHANGED call
  /\ FnFrame

CallGetTotalCarbs ==
  /\ call # Null /\ call.fn = "getTotalCarbs" /\ returned = Null
  /\ returned' = [value |-> getTotalCarbs(call.meals.list)]
  /\ UNCHANGED call
  /\ FnFrame

\* the list with its meals in the order p
Shuffled(ms, p) == [i \in 1..Len(ms) |-> ms[p[i]]]

\* the orders of n positions
Orders(n) == {p \in [1..n -> 1..n] : \A i, j \in 1..n : p[i] = p[j] => i = j}

\* the same function is called on the same meals in another order
CallTotalShuffled ==
  /\ call # Null /\ call.fn \in TotalFns /\ returned # Null
  /\ \E p \in Orders(Len(call.meals.list)) :
       LET ms == Shuffled(call.meals.list, p) IN
       /\ ms # call.meals.list
       /\ call' = [fn |-> call.fn, meals |-> [list |-> ms]]
       /\ returned' =
            [value |-> CASE call.fn = "getTotalCalories" -> getTotalCalories(ms)
                         [] call.fn = "getTotalProtein" -> getTotalProtein(ms)
                         [] call.fn = "getTotalFat" -> getTotalFat(ms)
                         [] call.fn = "getTotalCarbs" -> getTotalCarbs(ms)]
  /\ FnFrame

\* ---- App: pageToHash, hashToPage ----

Pages == {"home", "login", "register", "dashboard", "macro", "workout",
          "goalsForm", "goalsList"}

\* String.prototype.startsWith
StartsWith(s, prefix) == Len(prefix) <= Len(s) /\ SubSeq(s, 1, Len(prefix)) = prefix

pageToHash(page) ==
  CASE page = "home" -> <<"#", "/">>
    [] page = "login" -> <<"#", "/", "l", "o", "g", "i", "n">>
    [] page = "register" -> <<"#", "/", "r", "e", "g", "i", "s", "t", "e", "r">>
    [] page = "dashboard" -> <<"#", "/", "d", "a", "s", "h", "b", "o", "a", "r", "d">>
    [] page = "macro" -> <<"#", "/", "m", "a", "c", "r", "o">>
    [] page = "workout" -> <<"#", "/", "w", "o", "r", "k", "o", "u", "t">>
    [] page = "goalsForm" -> <<"#", "/", "g", "o", "a", "l", "s", "/", "n", "e", "w">>
    [] page = "goalsList" -> <<"#", "/", "g", "o", "a", "l", "s">>

\* mutant: '#/goals' is tested before '#/goals/new'
hashToPage_GoalsFirst(hash) ==
  IF hash = <<>> THEN "home"
  ELSE IF StartsWith(hash, <<"#", "/", "g", "o", "a", "l", "s">>) THEN "goalsList"
  ELSE IF StartsWith(hash, <<"#", "/", "l", "o", "g", "i", "n">>) THEN "login"
  ELSE IF StartsWith(hash, <<"#", "/", "r", "e", "g", "i", "s", "t", "e", "r">>) THEN "register"
  ELSE IF StartsWith(hash, <<"#", "/", "d", "a", "s", "h", "b", "o", "a", "r", "d">>) THEN "dashboard"
  ELSE IF StartsWith(hash, <<"#", "/", "m", "a", "c", "r", "o">>) THEN "macro"
  ELSE IF StartsWith(hash, <<"#", "/", "w", "o", "r", "k", "o", "u", "t">>) THEN "workout"
  ELSE IF StartsWith(hash, <<"#", "/", "g", "o", "a", "l", "s", "/", "n", "e", "w">>) THEN "goalsForm"
  ELSE "home"

hashToPage(hash) ==
  IF hash = <<>> THEN "home"
  ELSE IF StartsWith(hash, <<"#", "/", "l", "o", "g", "i", "n">>) THEN "login"
  ELSE IF StartsWith(hash, <<"#", "/", "r", "e", "g", "i", "s", "t", "e", "r">>) THEN "register"
  ELSE IF StartsWith(hash, <<"#", "/", "d", "a", "s", "h", "b", "o", "a", "r", "d">>) THEN "dashboard"
  ELSE IF StartsWith(hash, <<"#", "/", "m", "a", "c", "r", "o">>) THEN "macro"
  ELSE IF StartsWith(hash, <<"#", "/", "w", "o", "r", "k", "o", "u", "t">>) THEN "workout"
  ELSE IF StartsWith(hash, <<"#", "/", "g", "o", "a", "l", "s", "/", "n", "e", "w">>) THEN "goalsForm"
  ELSE IF StartsWith(hash, <<"#", "/", "g", "o", "a", "l", "s">>) THEN "goalsList"
  ELSE IF hash = <<"#", "/">> \/ hash = <<"#">> THEN "home"
  ELSE "home"

\* window.location.hash: '', the hash of a page, or other text, each also
\* with something after it
HashStems ==
  {<<>>} \cup {pageToHash(p) : p \in Pages}
    \cup {<<"#">>,
          <<"#", "/", "g">>,
          <<"#", "/", "g", "o", "a", "l">>,
          <<"/", "l", "o", "g", "i", "n">>,
          <<"#", "l", "o", "g", "i", "n">>,
          <<"l", "o", "g", "i", "n">>,
          <<"#", "/", "L", "o", "g", "i", "n">>,
          <<"#", "/", "h", "o", "m", "e">>}

HashTails == {<<>>, <<"/">>, <<"x">>, <<"/", "n", "e", "w">>, <<"?", "a">>}

Hashes == {stem \o tail : stem \in HashStems, tail \in HashTails}

CallPageToHash ==
  /\ call # Null /\ call.fn = "pageToHash" /\ returned = Null
  /\ returned' = [value |-> pageToHash(call.page)]
  /\ UNCHANGED call
  /\ FnFrame

CallHashToPage ==
  /\ call # Null /\ call.fn = "hashToPage" /\ returned = Null
  /\ returned' = [value |-> hashToPage(call.hash)]
  /\ UNCHANGED call
  /\ FnFrame

\* navigate(page) sets the hash that pageToHash returned; the hashchange
\* listener then reads it with hashToPage
CallHashToPageOfHash ==
  /\ call # Null /\ call.fn = "pageToHash" /\ returned # Null
  /\ call' = [fn |-> "hashToPage", hash |-> returned.value, of |-> call.page]
  /\ returned' = [value |-> hashToPage(returned.value)]
  /\ FnFrame

\* ---- dailyGoalsUtils: ensureDefaults ----

StarterTasks ==
  << [id |-> "water", name |-> "Drink Water", type |-> "counter", unit |-> "cups",
      target |-> 8, value |-> 0],
     [id |-> "steps", name |-> "Steps", type |-> "counter", unit |-> "steps",
      target |-> 8000, value |-> 0],
     [id |-> "protein", name |-> "Protein Hit", type |-> "checkbox", completed |-> FALSE],
     [id |-> "workout", name |-> "Workout Done", type |-> "checkbox", completed |-> FALSE] >>

\* mutant: the starter set replaces whatever list is given
ensureDefaults_AlwaysStarter(given) == StarterTasks

\* `given` is undefined or [list |-> the array]
ensureDefaults(given) ==
  IF given # Undefined /\ Len(given.list) > 0 THEN given.list
  ELSE StarterTasks

\* what loadDailyTasks hands over: undefined, or the array parsed from storage
GivenTasks ==
  {Undefined} \cup {[list |-> ts] : ts \in ListsOf(ToggleTasks, MaxTasks)}

CallEnsureDefaults ==
  /\ call # Null /\ call.fn = "ensureDefaults" /\ returned = Null
  /\ returned' = [value |-> ensureDefaults(call.tasks)]
  /\ UNCHANGED call
  /\ FnFrame

\* the list that was returned is given to ensureDefaults again
CallEnsureDefaultsAgain ==
  /\ call # Null /\ call.fn = "ensureDefaults" /\ returned # Null
  /\ call' = [fn |-> "ensureDefaults", tasks |-> [list |-> returned.value]]
  /\ returned' = [value |-> ensureDefaults(call'.tasks)]
  /\ FnFrame

\* computeDailyProgress of the list that ensureDefaults returned
CallProgressOfDefaults ==
  /\ call # Null /\ call.fn = "ensureDefaults" /\ returned # Null
  /\ call' = [fn |-> "computeDailyProgress", tasks |-> [list |-> returned.value]]
  /\ returned' = [value |-> computeDailyProgress(returned.value)]
  /\ FnFrame

-----------------------------------------------------------------------------
(* AuthService and GoalsService.  The supabase client holds the authSession;    *)
(* AsyncStorage holds the token and the current user.  Every await of the   *)
(* calls of login, register, logout and createGoal that the stores are read *)
(* or written at is a step of its own, so that the calls interleave.        *)

\* the user who signs in
TheUser == [id |-> "u"]

\* the access token of the n-th sign-in
TokenOf(n) == [token |-> n]

NoAuthToken == "No authentication token found"

SessionExpired == "Session expired. Please login again."

\* the statuses the backend answers with; response.ok is 200..299
Statuses == {200, 401, 500}

IsOk(status) == status >= 200 /\ status <= 299

AuIdle ==
  /\ authSession = Null /\ tokenItem = Null /\ userItem = Null
  /\ goalPc = "idle" /\ authToken = Null /\ authStatus = 0 /\ authError = ""
  /\ posts = <<>> /\ goalCalls = 0 /\ loginPc = "idle" /\ signIns = 0

\* signed out; signed in with supabase, token and user stored; or a token and
\* a user kept in storage with no supabase session
AuInit ==
  /\ \/ authSession = Null /\ tokenItem = Null /\ userItem = Null
     \/ authSession = [access_token |-> TokenOf(0)] /\ tokenItem = TokenOf(0)
          /\ userItem = TheUser
     \/ authSession = Null /\ tokenItem = TokenOf(0) /\ userItem = TheUser
  /\ goalPc = "idle" /\ authToken = Null /\ authStatus = 0 /\ authError = ""
  /\ posts = <<>> /\ goalCalls = 0 /\ loginPc = "idle" /\ signIns = 0

\* AuthService.isLoggedIn: user !== null && token !== null, the user being
\* the supabase user or else the stored one
isLoggedIn == (authSession # Null \/ userItem # Null) /\ tokenItem # Null

\* ---- AuthService.login and AuthService.register ----

\* login: signInWithPassword resolves with a user and a session
loginSignedIn ==
  /\ loginPc = "idle" /\ signIns < MaxSignIns
  /\ signIns' = signIns + 1
  /\ authSession' = [access_token |-> TokenOf(signIns')]
  /\ loginPc' = "login: setItem"
  /\ UNCHANGED <<tokenItem, userItem, goalPc, authToken, authStatus, authError, posts,
                 goalCalls>>
  /\ AuFrame

\* login: AsyncStorage.setItem(TOKEN_KEY, session.access_token), the session
\* being the one signInWithPassword resolved with
loginStoreToken ==
  /\ loginPc = "login: setItem"
  /\ tokenItem' = TokenOf(signIns)
  /\ loginPc' = "login: setCurrentUser"
  /\ UNCHANGED <<authSession, userItem, goalPc, authToken, authStatus, authError, posts,
                 goalCalls, signIns>>
  /\ AuFrame

\* login: setCurrentUser(userOut), after which login returns the user
loginStoreUser ==
  /\ loginPc = "login: setCurrentUser"
  /\ userItem' = TheUser
  /\ loginPc' = "idle"
  /\ UNCHANGED <<authSession, tokenItem, goalPc, authToken, authStatus, authError, posts,
                 goalCalls, signIns>>
  /\ AuFrame

\* register: signUp resolves with a user, and with a session unless the
\* account has to be confirmed first
registerSignedUp ==
  /\ loginPc = "idle" /\ signIns < MaxSignIns
  /\ signIns' = signIns + 1
  /\ \/ authSession' = [access_token |-> TokenOf(signIns')]
     \/ authSession' = authSession
  /\ loginPc' = "register: setCurrentUser"
  /\ UNCHANGED <<tokenItem, userItem, goalPc, authToken, authStatus, authError, posts,
                 goalCalls>>
  /\ AuFrame

\* register: setCurrentUser(userOut)
registerStoreUser ==
  /\ loginPc = "register: setCurrentUser"
  /\ userItem' = TheUser
  /\ loginPc' = "register: getSession"
  /\ UNCHANGED <<authSession, tokenItem, goalPc, authToken, authStatus, authError, posts,
                 goalCalls, signIns>>
  /\ AuFrame

\* register: getSession, and setItem(TOKEN_KEY, ...) when there is a session
registerStoreToken ==
  /\ loginPc = "register: getSession"
  /\ tokenItem' = IF authSession # Null THEN authSession.access_token ELSE tokenItem
  /\ loginPc' = "idle"
  /\ UNCHANGED <<authSession, userItem, goalPc, authToken, authStatus, authError, posts,
                 goalCalls, signIns>>
  /\ AuFrame

\* ---- GoalsService.createGoal and AuthService.makeAuthenticatedRequest ----

\* the fallback request of createGoal's catch block
FallbackPost == [auth |-> FALSE]

\* createGoal up to the call of makeAuthenticatedRequest: getCurrentUser,
\* which stores the supabase user when there is one
createGoal ==
  /\ goalPc \in {"idle", "resolved", "rejected"} /\ goalCalls < MaxGoalCalls
  /\ goalCalls' = goalCalls + 1
  /\ userItem' = IF authSession # Null THEN TheUser ELSE userItem
  /\ posts' = <<>> /\ authToken' = Null /\ authStatus' = 0 /\ authError' = ""
  /\ goalPc' = "makeAuthenticatedRequest"
  /\ UNCHANGED <<authSession, tokenItem, loginPc, signIns>>
  /\ AuFrame

\* makeAuthenticatedRequest up to its fetch: the token is the session's or
\* else the stored one; with no token it throws, and createGoal's catch
\* block sends the fallback request
makeAuthenticatedRequest ==
  /\ goalPc = "makeAuthenticatedRequest"
  /\ LET token == IF authSession # Null THEN authSession.access_token ELSE tokenItem IN
     /\ authToken' = token
     /\ IF token = Null
          THEN /\ authError' = NoAuthToken
               /\ posts' = Append(posts, FallbackPost)
               /\ goalPc' = "fallback fetch"
          ELSE /\ authError' = authError
               /\ posts' = Append(posts, [auth |-> TRUE, bearer |-> token])
               /\ goalPc' = "fetch"
  /\ UNCHANGED <<authSession, tokenItem, userItem, authStatus, goalCalls, loginPc, signIns>>
  /\ AuFrame

\* mutant: on 401 'Session expired' is thrown at once, with no logout
authResponse_NoLogout ==
  /\ goalPc = "fetch"
  /\ \E status \in Statuses :
       /\ authStatus' = status
       /\ IF IsOk(status)
            THEN /\ goalPc' = "resolved"
                 /\ UNCHANGED <<posts, authError>>
            ELSE /\ posts' = Append(posts, FallbackPost)
                 /\ goalPc' = "fallback fetch"
                 /\ authError' = IF status = 401 THEN SessionExpired ELSE authError
  /\ UNCHANGED <<authSession, tokenItem, userItem, authToken, goalCalls, loginPc, signIns>>
  /\ AuFrame

\* the authenticated request is answered.  200: createGoal returns the goal.
\* 401: logout starts with removeItem(TOKEN_KEY).  Any other status: the
\* response is returned, createGoal throws on !response.ok and its catch
\* block sends the fallback request.
authResponse ==
  /\ goalPc = "fetch"
  /\ \E status \in Statuses :
       /\ authStatus' = status
       /\ IF status = 401
            THEN /\ tokenItem' = Null
                 /\ goalPc' = "logout: setCurrentUser"
                 /\ posts' = posts
            ELSE IF IsOk(status)
              THEN /\ goalPc' = "resolved"
                   /\ UNCHANGED <<tokenItem, posts>>
              ELSE /\ posts' = Append(posts, FallbackPost)
                   /\ goalPc' = "fallback fetch"
                   /\ tokenItem' = tokenItem
  /\ UNCHANGED <<authSession, userItem, authToken, authError, goalCalls, loginPc, signIns>>
  /\ AuFrame

\* the authenticated fetch rejects (no answer): the catch block sends the
\* fallback request
authFetchFailed ==
  /\ goalPc = "fetch"
  /\ posts' = Append(posts, FallbackPost)
  /\ goalPc' = "fallback fetch"
  /\ UNCHANGED <<authSession, tokenItem, userItem, authToken, authStatus, authError, goalCalls,
                 loginPc, signIns>>
  /\ AuFrame

\* logout: setCurrentUser(null) removes the stored user
logoutRemoveUser ==
  /\ goalPc = "logout: setCurrentUser"
  /\ userItem' = Null
  /\ goalPc' = "logout: signOut"
  /\ UNCHANGED <<authSession, tokenItem, authToken, authStatus, authError, posts, goalCalls,
                 loginPc, signIns>>
  /\ AuFrame

\* logout: supabase.auth.signOut(); makeAuthenticatedRequest then throws
\* 'Session expired', and createGoal's catch block sends the fallback request
logoutSignOut ==
  /\ goalPc = "logout: signOut"
  /\ authSession' = Null
  /\ authError' = SessionExpired
  /\ posts' = Append(posts, FallbackPost)
  /\ goalPc' = "fallback fetch"
  /\ UNCHANGED <<tokenItem, userItem, authToken, authStatus, goalCalls, loginPc, signIns>>
  /\ AuFrame

\* the fallback request is answered, or its fetch rejects
fallbackResponse ==
  /\ goalPc = "fallback fetch"
  /\ \E ok \in BOOLEAN : goalPc' = IF ok THEN "resolved" ELSE "rejected"
  /\ UNCHANGED <<authSession, tokenItem, userItem, authToken, authStatus, authError, posts,
                 goalCalls, loginPc, signIns>>
  /\ AuFrame

-----------------------------------------------------------------------------
(* MacroTracker's persistence per selected date, and Dashboard's meal count. *)
(* A key built by a template literal is the tuple of its parts.  A meal or a *)
(* goal is its id: the persistence code reads no other field.                *)

Guest == "guest"

\* new Date().toISOString().split('T')[0], on the day of the run
Today == "d1"

\* the texts the date input is set to
Days == {"d1", "d2"}

Users == {Guest, TheUser.id}

\* `macro_meals_${userId}_${date}`
STORAGE_MEALS_KEY(user, date) == <<"macro_meals", user, date>>

\* `macro_goal_${userId}_${date}`
STORAGE_GOAL_KEY(user, date) == <<"macro_goal", user, date>>

\* Dashboard's `macro_meals_${today}`
DashboardMealsKey == <<"macro_meals", Today>>

StorageKeys ==
  {STORAGE_MEALS_KEY(u, d) : u \in Users, d \in Days}
    \cup {STORAGE_GOAL_KEY(u, d) : u \in Users, d \in Days}
    \cup {DashboardMealsKey}

\* JSON.stringify and JSON.parse of a goal or of null, and of a list of meals
Stringify(value) == [json |-> value]

Parse(item) == item.json

StringifyArray(array) == [json |-> [array |-> array]]

ParseArray(item) == item.json.array

EmptyStorage == [k \in StorageKeys |-> Null]

\* ids of the meals and goals an earlier run stored
EarlierId(k) ==
  (IF k[1] = "macro_meals" THEN 0 ELSE 4) + (IF k[2] = Guest THEN 0 ELSE 2)
    + (IF k[3] = Today THEN 1 ELSE 2)

\* what an earlier run left: one meal and a goal for each user and day
EarlierStorage ==
  [k \in StorageKeys |->
     IF k = DashboardMealsKey THEN Null
     ELSE IF k[1] = "macro_meals" THEN StringifyArray(<< [id |-> EarlierId(k)] >>)
     ELSE Stringify([id |-> EarlierId(k)])]

EarlierIds == 1..8

MadeIds == 1..(8 + MaxListChanges)

EarlierOrigin ==
  [i \in MadeIds |->
     IF \E k \in StorageKeys \ {DashboardMealsKey} : EarlierId(k) = i
       THEN LET k == CHOOSE k \in StorageKeys \ {DashboardMealsKey} : EarlierId(k) = i
            IN  <<k[2], k[3]>>
       ELSE <<>>]

PsIdle ==
  /\ userId = Guest /\ selectedDate = Today /\ currentGoal = Null
  /\ storage = EmptyStorage /\ pending = <<>> /\ awaited = {} /\ todayMeals = 0
  /\ origin = EarlierOrigin /\ dateChanges = 0 /\ listChanges = 0

\* the app starts on the home page, signed out or with a user and a token in
\* storage, over an empty storage or over what an earlier run left
PsInit ==
  /\ currentPage = "home"
  /\ meals = <<>> /\ showAddMeal = FALSE /\ editingMealId = Null
  /\ newMeal = EmptyDraft /\ mealAlert = Null /\ mealClock = 9
  /\ GfUnmounted
  /\ authSession = Null
  /\ \/ tokenItem = Null /\ userItem = Null
     \/ tokenItem = TokenOf(0) /\ userItem = TheUser
  /\ goalPc = "idle" /\ authToken = Null /\ authStatus = 0 /\ authError = ""
  /\ posts = <<>> /\ goalCalls = 0 /\ loginPc = "idle" /\ signIns = 0
  /\ userId = Guest /\ selectedDate = Today /\ currentGoal = Null
  /\ storage \in {EmptyStorage, EarlierStorage}
  /\ pending = <<>> /\ awaited = {} /\ todayMeals = 0
  /\ origin = EarlierOrigin /\ dateChanges = 0 /\ listChanges = 0

Unread == [unread |-> TRUE]

\* the load effect (lines 103-117) calls getItem twice, with the keys of the
\* render that ran the effect, and awaits both
LoadEffect(n) ==
  << [op |-> "getItem", for |-> <<"load", n>>, into |-> "mealsJson",
      key |-> STORAGE_MEALS_KEY(userId', selectedDate')],
     [op |-> "getItem", for |-> <<"load", n>>, into |-> "goalJson",
      key |-> STORAGE_GOAL_KEY(userId', selectedDate')] >>

Load(n) == [op |-> "load", id |-> <<"load", n>>, mealsJson |-> Unread, goalJson |-> Unread]

\* the save effect of lines 119-121
SaveMealsEffect ==
  << [op |-> "setItem", key |-> STORAGE_MEALS_KEY(userId', selectedDate'),
      value |-> StringifyArray(meals')] >>

\* the save effect of lines 123-125
SaveGoalEffect ==
  << [op |-> "setItem", key |-> STORAGE_GOAL_KEY(userId', selectedDate'),
      value |-> Stringify(currentGoal')] >>

\* MacroTracker is mounted: the first render and its four effects
MacroTracker ==
  /\ currentPage = "home"
  /\ currentPage' = "macro"
  /\ UNCHANGED <<userId, selectedDate, currentGoal, meals, mealClock, storage,
                 todayMeals, origin, dateChanges, listChanges>>
  /\ pending' = pending \o LoadEffect(0) \o SaveMealsEffect \o SaveGoalEffect
  /\ awaited' = awaited \cup {[op |-> "getCurrentUser"], Load(0)}
  /\ PsFrame

\* line 55: getCurrentUser resolves; setUserId(u?.id || 'guest').  No effect
\* has userId among its dependencies.  After the unmount the setter does
\* nothing
setUserId ==
  /\ [op |-> "getCurrentUser"] \in awaited
  /\ awaited' = awaited \ {[op |-> "getCurrentUser"]}
  /\ userId' = IF currentPage # "macro" THEN userId
               ELSE IF userItem # Null THEN userItem.id ELSE Guest
  /\ UNCHANGED <<currentPage, selectedDate, currentGoal, meals, mealClock, storage,
                 pending, todayMeals, origin, dateChanges, listChanges>>
  /\ PsFrame

\* the date input's onChangeText: the load effect and both save effects run
setSelectedDate ==
  /\ currentPage = "macro" /\ dateChanges < MaxDateChanges
  /\ \E date \in Days \ {selectedDate} : selectedDate' = date
  /\ dateChanges' = dateChanges + 1
  /\ UNCHANGED <<currentPage, userId, currentGoal, meals, mealClock, storage,
                 todayMeals, origin, listChanges>>
  /\ pending' = pending \o LoadEffect(dateChanges') \o SaveMealsEffect \o SaveGoalEffect
  /\ awaited' = awaited \cup {Load(dateChanges')}
  /\ PsFrame

\* setMeals as the handlers call it: addMeal (line 94), saveEdit (156: the
\* same ids in a new array), deleteMeal (171), Clear Day (283); then the save
\* effect of the meals
setMeals ==
  /\ currentPage = "macro" /\ listChanges < MaxListChanges
  /\ \/ /\ meals' = Append(meals, [id |-> mealClock])
        /\ mealClock' = mealClock + 1
        /\ origin' = [origin EXCEPT ![mealClock] = <<userId, selectedDate>>]
     \/ /\ meals # <<>>
        /\ \/ meals' = meals
           \/ \E i \in 1..Len(meals) :
                meals' = SelectSeq(meals, LAMBDA meal : meal.id # meals[i].id)
           \/ meals' = <<>>
        /\ UNCHANGED <<mealClock, origin>>
  /\ listChanges' = listChanges + 1
  /\ UNCHANGED <<currentPage, userId, selectedDate, currentGoal, storage, awaited,
                 todayMeals, dateChanges>>
  /\ pending' = pending \o SaveMealsEffect
  /\ PsFrame

\* setCurrentGoal as the handlers call it: setGoal (line 215), clearGoal
\* (231); then the save effect of the goal
setCurrentGoal ==
  /\ currentPage = "macro" /\ listChanges < MaxListChanges
  /\ \/ /\ currentGoal' = [id |-> mealClock]
        /\ mealClock' = mealClock + 1
        /\ origin' = [origin EXCEPT ![mealClock] = <<userId, selectedDate>>]
     \/ /\ currentGoal # Null
        /\ currentGoal' = Null
        /\ UNCHANGED <<mealClock, origin>>
  /\ listChanges' = listChanges + 1
  /\ UNCHANGED <<currentPage, userId, selectedDate, meals, storage, awaited, todayMeals,
                 dateChanges>>
  /\ pending' = pending \o SaveGoalEffect
  /\ PsFrame

\* AsyncStorage completes the oldest call, a setItem
setItem ==
  /\ pending # <<>> /\ Head(pending).op = "setItem"
  /\ storage' = [storage EXCEPT ![Head(pending).key] = Head(pending).value]
  /\ pending' = Tail(pending)
  /\ UNCHANGED <<currentPage, userId, selectedDate, currentGoal, meals, mealClock,
                 awaited, todayMeals, origin, dateChanges, listChanges>>
  /\ PsFrame

\* AsyncStorage completes the oldest call, a getItem: the promise that awaits
\* it gets the item
getItem ==
  /\ pending # <<>> /\ Head(pending).op = "getItem"
  /\ LET c == Head(pending)
     IN  \E r \in awaited :
           /\ r.op # "getCurrentUser" /\ r.id = c.for
           /\ awaited' = (awaited \ {r}) \cup
                           {[r EXCEPT ![c.into] = [got |-> storage[c.key]]]}
  /\ pending' = Tail(pending)
  /\ UNCHANGED <<currentPage, userId, selectedDate, currentGoal, meals, mealClock, storage,
                 todayMeals, origin, dateChanges, listChanges>>
  /\ PsFrame

\* lines 110-111: Promise.all resolved; setMeals and setCurrentGoal with what
\* was read, then the save effects of the render: the meals are a new array,
\* the goal is a new object unless it is null again.  After the unmount the
\* two setters do nothing
load ==
  /\ UNCHANGED <<currentPage, userId, selectedDate, mealClock, storage, todayMeals, origin,
                 dateChanges, listChanges>>
  /\ \E r \in awaited :
       /\ r.op = "load" /\ r.mealsJson # Unread /\ r.goalJson # Unread
       /\ awaited' = awaited \ {r}
       /\ IF currentPage = "macro"
            THEN /\ meals' = IF r.mealsJson.got # Null THEN ParseArray(r.mealsJson.got)
                             ELSE <<>>
                 /\ currentGoal' = IF r.goalJson.got # Null THEN Parse(r.goalJson.got)
                                   ELSE Null
                 /\ pending' = pending \o SaveMealsEffect \o
                                 (IF currentGoal = Null /\ currentGoal' = Null
                                    THEN <<>> ELSE SaveGoalEffect)
            ELSE UNCHANGED <<meals, currentGoal, pending>>
  /\ PsFrame

\* the user leaves MacroTracker for the Dashboard, whose mount effect calls
\* loadUserData: line 632, getItem(`macro_meals_${today}`)
loadUserData ==
  /\ currentPage = "macro"
  /\ currentPage' = "dashboard"
  /\ pending' = Append(pending, [op |-> "getItem", for |-> <<"loadUserData", 0>>,
                                 into |-> "mealsJson", key |-> DashboardMealsKey])
  /\ awaited' = awaited \cup {[op |-> "loadUserData", id |-> <<"loadUserData", 0>>,
                             mealsJson |-> Unread]}
  /\ UNCHANGED <<userId, selectedDate, currentGoal, meals, mealClock, storage, todayMeals,
                 origin, dateChanges, listChanges>>
  /\ PsFrame

\* Dashboard lines 633-634:
\* setTodayMeals(Array.isArray(mealsArr) ? mealsArr.length : 0)
setTodayMeals ==
  /\ \E r \in awaited :
       /\ r.op = "loadUserData" /\ r.mealsJson # Unread
       /\ awaited' = awaited \ {r}
       /\ todayMeals' = IF r.mealsJson.got # Null THEN Len(ParseArray(r.mealsJson.got))
                        ELSE 0
  /\ UNCHANGED <<currentPage, userId, selectedDate, currentGoal, meals, mealClock, storage,
                 pending, origin, dateChanges, listChanges>>
  /\ PsFrame

-----------------------------------------------------------------------------
(* Specifications: one per component *)

Init == WtInit /\ TkIdle /\ WkIdle /\ FmIdle /\ GvIdle /\ FnIdle /\ AuIdle /\ PsIdle

Next == WtNext

Spec == Init /\ [][Next]_vars

InitPersistence == PsInit /\ WtInit /\ TkIdle /\ WkIdle /\ GvIdle /\ FnIdle

NextPersistence ==
  \/ MacroTracker \/ setUserId \/ setSelectedDate \/ setMeals \/ setCurrentGoal
  \/ setItem \/ getItem \/ load \/ loadUserData \/ setTodayMeals

SpecPersistence == InitPersistence /\ [][NextPersistence]_vars

InitTasks == tasks \in ListsOf(ToggleTasks, MaxTasks) /\ tkCall = Null
             /\ tkPrev = Null /\ progress = 0 /\ WtInit /\ WkIdle
                /\ FmIdle /\ GvIdle /\ FnIdle /\ AuIdle /\ PsIdle

NextTasks == CallToggle \/ CallUpdateCounter

SpecTasks == InitTasks /\ [][NextTasks]_vars

InitProgress == tasks \in ListsOf(ProgressTasks, MaxProgressTasks) /\ tkCall = Null
                /\ tkPrev = Null /\ progress = 0 /\ WtInit /\ WkIdle
                /\ FmIdle /\ GvIdle /\ FnIdle /\ AuIdle /\ PsIdle

NextProgress == CallComputeProgress

SpecProgress == InitProgress /\ [][NextProgress]_vars

InitWeekly ==
  /\ history \in ListsOf(WeeklySessions, MaxSessions)
  /\ now \in NowDates /\ tz \in TimeZones
  /\ wkPc = "idle" /\ checkDate = Invalid /\ currentStreak = 0
  /\ summary = Null /\ trends = Null
  /\ WtInit /\ TkIdle /\ FmIdle /\ GvIdle /\ FnIdle /\ AuIdle /\ PsIdle

NextWeekly == computeWeeklySummary \/ StreakStep \/ StreakReturn

SpecWeekly == InitWeekly /\ [][NextWeekly]_vars

InitMemos ==
  /\ history \in InlineHistories
  /\ now = [t |-> (FirstDay + MaxInlineDays - 2) * HoursPerDay + 12]
  /\ tz \in {0, 12}
  /\ wkPc = "idle" /\ checkDate = Invalid /\ currentStreak = 0
  /\ summary = Null /\ trends = Null
  /\ WtInit /\ TkIdle /\ FmIdle /\ GvIdle /\ FnIdle /\ AuIdle /\ PsIdle

NextMemos ==
  \/ computeWeeklySummary \/ StreakStep \/ StreakReturn
  \/ CallComputeLocalTrends
  \/ RenderMemos

SpecMemos == InitMemos /\ [][NextMemos]_vars

InitTrends ==
  /\ history \in ListsOf(TrendSessions, MaxTrendSessions)
  /\ now = Invalid /\ tz = 0
  /\ wkPc = "idle" /\ checkDate = Invalid /\ currentStreak = 0
  /\ summary = Null /\ trends = Null
  /\ WtInit /\ TkIdle /\ FmIdle /\ GvIdle /\ FnIdle /\ AuIdle /\ PsIdle

NextTrends == CallComputeLocalTrends

SpecTrends == InitTrends /\ [][NextTrends]_vars

InitForms ==
  /\ \/ MtInit /\ GfUnmounted
     \/ GfInit /\ MtUnmounted
  /\ WtInit /\ TkIdle /\ WkIdle /\ GvIdle /\ FnIdle /\ AuIdle /\ PsIdle

NextForms ==
  \/ openAddMeal \/ closeAddMeal \/ setNewMealName \/ setNewMealNumber
  \/ addMeal \/ startEditMeal \/ saveEditMeal
  \/ deleteMeal \/ deleteMealConfirm \/ clearDay \/ clearDayConfirm \/ dismissAlert
  \/ setGoalType \/ setTargetValue \/ setStartDate \/ setEndDate
  \/ handleSubmit \/ createGoalResolved \/ createGoalRejected

SpecForms == InitForms /\ [][NextForms]_vars

InitGoalValidation ==
  /\ values \in GoalFormInputs /\ validation = Null
  /\ WtInit /\ TkIdle /\ WkIdle /\ FmIdle /\ FnIdle /\ AuIdle /\ PsIdle

NextGoalValidation == CallValidateGoalForm

SpecGoalValidation == InitGoalValidation /\ [][NextGoalValidation]_vars

InitWorkoutTotals ==
  /\ call \in {[fn |-> "computeWorkoutTotals", session |-> s] : s \in TotalsSessions}
  /\ returned = Null
  /\ WtInit /\ TkIdle /\ WkIdle /\ FmIdle /\ GvIdle /\ AuIdle /\ PsIdle

NextWorkoutTotals == CallComputeWorkoutTotals

SpecWorkoutTotals == InitWorkoutTotals /\ [][NextWorkoutTotals]_vars

InitDefaults ==
  /\ call \in {[fn |-> "ensureDefaults", tasks |-> t] : t \in GivenTasks}
  /\ returned = Null
  /\ WtInit /\ TkIdle /\ WkIdle /\ FmIdle /\ GvIdle /\ AuIdle /\ PsIdle

NextDefaults == CallEnsureDefaults \/ CallEnsureDefaultsAgain \/ CallProgressOfDefaults

SpecDefaults == InitDefaults /\ [][NextDefaults]_vars

InitTotals ==
  /\ call \in TotalCalls
  /\ returned = Null
  /\ WtInit /\ TkIdle /\ WkIdle /\ FmIdle /\ GvIdle /\ AuIdle /\ PsIdle

NextTotals ==
  \/ CallGetTotalCalories \/ CallGetTotalProtein \/ CallGetTotalFat \/ CallGetTotalCarbs
  \/ CallTotalShuffled

SpecTotals == InitTotals /\ [][NextTotals]_vars

InitRouting ==
  /\ call \in {[fn |-> "pageToHash", page |-> p] : p \in Pages}
              \cup {[fn |-> "hashToPage", hash |-> h] : h \in Hashes}
  /\ returned = Null
  /\ WtInit /\ TkIdle /\ WkIdle /\ FmIdle /\ GvIdle /\ AuIdle /\ PsIdle

NextRouting == CallPageToHash \/ CallHashToPage \/ CallHashToPageOfHash

SpecRouting == InitRouting /\ [][NextRouting]_vars

InitGoalsService == AuInit /\ WtInit /\ TkIdle /\ WkIdle /\ FmIdle /\ GvIdle /\ FnIdle /\ PsIdle

NextGoalsService ==
  \/ loginSignedIn \/ loginStoreToken \/ loginStoreUser
  \/ registerSignedUp \/ registerStoreUser \/ registerStoreToken
  \/ createGoal \/ makeAuthenticatedRequest
  \/ authResponse \/ authFetchFailed
  \/ logoutRemoveUser \/ logoutSignOut
  \/ fallbackResponse

SpecGoalsService == InitGoalsService /\ [][NextGoalsService]_vars

InitMacroUtils ==
  /\ call \in
       {[fn |-> "getGoalProgress", current |-> c, target |-> t] :
          c \in ProgressCurrents, t \in ProgressTargets}
       \cup {[fn |-> "getDaysRemaining", goal |-> g, today |-> n] :
               g \in RemainingGoals, n \in NowDates \ {Invalid}}
       \cup {[fn |-> "validateMealDraft", draft |-> d] : d \in MealDrafts}
  /\ returned = Null
  /\ WtInit /\ TkIdle /\ WkIdle /\ FmIdle /\ GvIdle /\ AuIdle /\ PsIdle

NextMacroUtils == CallGetGoalProgress \/ CallGetDaysRemaining \/ CallValidateMealDraft

SpecMacroUtils == InitMacroUtils /\ [][NextMacroUtils]_vars

-----------------------------------------------------------------------------
(* Claims about workoutUtils *)

\* Monday 00:00:00 local time of now's week: the Monday among the seven
\* local midnights that precede now (that of now's own day included)
MondayOfNow ==
  CHOOSE m \in {(((now.t + tz) \div 24) - k) * 24 - tz : k \in 0..6} :
    (((m + tz) \div 24) + 4) % 7 = 1

\* the sessions whose date d (the instant new Date(w.date) denotes: UTC
\* midnight of a date-only string) lies between that Monday and now
SessionsInWindow ==
  {i \in 1..Len(history) :
     /\ history[i].date.kind = "iso"
     /\ MondayOfNow <= history[i].date.day * 24
     /\ history[i].date.day * 24 <= now.t}

SessionLocalDays ==
  {(history[i].date.day * 24 + tz) \div 24 :
     i \in {j \in 1..Len(history) : history[j].date.kind = "iso"}}

(* C5: currentStreak is the length of the longest run of consecutive calendar *)
(* days ending at now's calendar day in which every day has at least one      *)
(* session of the history (0 when now's day has none); sessions of earlier    *)
(* weeks count.  A session falls on the local calendar day of its date.       *)
C5_StreakIsRunEndingToday ==
  (wkPc = "done" /\ now # Invalid) =>
    LET today == (now.t + tz) \div 24 IN
    /\ \A k \in 0..(currentStreak - 1) : (today - k) \in SessionLocalDays
    /\ (today - currentStreak) \notin SessionLocalDays

\* a streak of two days that crosses the Monday boundary of the week
C5_Witness ==
  /\ wkPc = "done" /\ now # Invalid
  /\ currentStreak = 2 /\ summary.completedThisWeek = 1

\* the sessions of the history whose date parses
ParseableSessions == {i \in 1..Len(history) : history[i].date.kind = "iso"}

(* C21: a session whose date is unparseable is never counted by the week     *)
(* window of computeWeeklySummary: for every now, completedThisWeek and      *)
(* totalMinutes are the number and the summed duration of sessions that are  *)
(* all among those whose date parses.                                        *)
C21_UnparseableDateNeverInWeek ==
  summary # Null =>
    \E counted \in SUBSET ParseableSessions :
      /\ summary.completedThisWeek = Cardinality(counted)
      /\ summary.totalMinutes =
           SumSeq([i \in 1..Len(history) |->
                     IF i \in counted THEN history[i].duration ELSE 0])

\* a session with an unparseable date next to one dated now's day: only the
\* second is counted
C21_Witness ==
  /\ summary # Null /\ now # Invalid
  /\ Len(history) = 2
  /\ history[1].date = BadDate
  /\ history[2].date = IsoDate(now.t \div 24)
  /\ summary.completedThisWeek = 1
  /\ summary.totalMinutes = history[2].duration

(* C26: computeWeeklySummary terminates for every history and every nowDate,  *)
(* an invalid nowDate and sessions with unparseable dates included: each     *)
(* iteration of the backward streak walk moves checkDate to an earlier       *)
(* instant, so that the walk leaves the finite set of session days.  With an *)
(* invalid nowDate and a session whose date is unparseable an iteration      *)
(* leaves checkDate as it was, and the loop condition stays true.            *)
C26_StreakWalkMovesBack ==
  [][StreakStep => (checkDate' # Invalid /\ checkDate'.t < checkDate.t)]_vars

(* C28: the trends and the weekly summary that the WorkoutTracker screen     *)
(* computes inline from workoutHistory are equal, for every history, to      *)
(* computeLocalTrends(workoutHistory) and to                                 *)
(* computeWeeklySummary(workoutHistory, now).                                *)
C28_ScreenMemosEqualUtilities ==
  (call # Null /\ call.fn = "WorkoutTracker") =>
    /\ trends # Null => returned.localTrends = trends
    /\ wkPc = "done" =>
         returned.weeklySummary =
           [completedThisWeek |-> summary.completedThisWeek,
            totalMinutes |-> summary.totalMinutes,
            currentStreak |-> currentStreak]

(* C7: no aggregation function throws: for every input, a session with an    *)
(* unparseable date included, each returns a value.  computeLocalTrends       *)
(* throws a RangeError on such a session.                                     *)
C7_AggregationsNeverThrow == trends # Threw

-----------------------------------------------------------------------------
(* Claims about the meal form, the goal form and validateGoalForm *)

(* C8: when validation returns a non-empty error list the caller writes      *)
(* nothing: a step of addMeal or saveEditMeal taken while validateMealDraft  *)
(* reports errors leaves meals, the editing state, the draft and the modal   *)
(* as they were, and a step of handleSubmit taken while validateGoalForm     *)
(* reports errors makes no call of GoalsService.createGoal.                  *)
C8_NoWriteOnValidationErrors ==
  [][/\ ((addMeal \/ saveEditMeal) /\ validateMealDraft(newMeal) # <<>>)
          => UNCHANGED <<meals, editingMealId, newMeal, showAddMeal>>
     /\ (handleSubmit /\ validateGoalForm(Payload) # <<>>)
          => UNCHANGED <<createGoalCalls, submitting>>]_vars

\* saveEditMeal has just refused an invalid draft: its error alert is up, the
\* edited meal is still listed and still being edited
C8_Witness ==
  /\ currentPage = "macro" /\ mealAlert # Null /\ mealAlert.title = "Error"
  /\ editingMealId # Null
  /\ \E i \in 1..Len(meals) : meals[i].id = editingMealId.id
  /\ validateMealDraft(newMeal) # <<>>

\* the fields of the errors validateGoalForm returned
ErrorFields == {validation.errors[i].field : i \in 1..Len(validation.errors)}

\* a date of values is given: neither undefined nor ''
Given(f) == Has(values, f) /\ values[f].kind # "empty"

\* a date of values is given and parses to a timestamp
Parses(f) == Given(f) /\ values[f].kind = "iso"

(* C9: validateGoalForm returns the empty list exactly when goal_type is     *)
(* present, target_value is a number with 0 < target_value <= 1000, both     *)
(* dates are present and parse, and start <= end (equal dates are valid).    *)
C9_EmptyExactlyWhenValid ==
  validation # Null =>
    (validation.errors = <<>> <=>
       /\ Has(values, "goal_type") /\ values.goal_type # ""
       /\ Has(values, "target_value") /\ "num" \in DOMAIN values.target_value
       /\ 0 < values.target_value.num /\ values.target_value.num <= 1000
       /\ Parses("start_date") /\ Parses("end_date")
       /\ values.start_date.day <= values.end_date.day)

\* a form with equal start and end dates and the largest target passes
C9_Witness ==
  /\ validation # Null /\ validation.errors = <<>>
  /\ values.start_date = values.end_date
  /\ values.target_value = Num(1000)

\* a date of values is given and does not parse
Unparseable(f) == Given(f) /\ values[f].kind = "bad"

(* C10, as stated: whenever start_date or end_date does not parse to a valid *)
(* timestamp the result has an error of field `date`, whether or not         *)
(* missing-field errors are reported.                                        *)
C10_UnparseableDateAlwaysReported ==
  (validation # Null /\ (Unparseable("start_date") \/ Unparseable("end_date")))
    => "date" \in ErrorFields

(* C10, amended: when both dates are given and one of them does not parse,   *)
(* the result has an error of field `date` (next to the errors of goal_type  *)
(* and target_value, if any); when a date is missing no `date` error is      *)
(* reported, whatever the other date is.                                     *)
C10_UnparseableDateReportedWhenBothGiven ==
  validation # Null =>
    /\ (/\ Given("start_date") /\ Given("end_date")
        /\ (Unparseable("start_date") \/ Unparseable("end_date")))
         => \E i \in 1..Len(validation.errors) :
              validation.errors[i] = [field |-> "date", message |-> "Invalid date format"]
    /\ ~(Given("start_date") /\ Given("end_date")) => "date" \notin ErrorFields

\* an unparseable end date next to a parseable start date, reported together
\* with a missing goal_type
C10_Witness ==
  /\ validation # Null
  /\ Parses("start_date") /\ Unparseable("end_date")
  /\ ErrorFields = {"goal_type", "date"}

\* how many of the returned errors carry the field f
ErrorCount(f) ==
  Cardinality({i \in 1..Len(validation.errors) : validation.errors[i].field = f})

\* the position of a field in the order of the checks
FieldRank(f) ==
  CASE f = "goal_type" -> 1
    [] f = "target_value" -> 2
    [] f = "start_date" -> 3
    [] f = "end_date" -> 4
    [] f = "date" -> 5

\* target_value is undefined, null or NaN, or a number outside (0, 1000]
TargetMissingOrOutside ==
  \/ ~Has(values, "target_value")
  \/ values.target_value \in {Null, NaN, Infinity}
  \/ /\ "num" \in DOMAIN values.target_value
     /\ ~(0 < values.target_value.num /\ values.target_value.num <= 1000)

(* C11: the checks of validateGoalForm are independent and cumulative: a     *)
(* goal_type error iff goal_type is missing, a target_value error iff        *)
(* target_value is missing, NaN or outside (0, 1000], a start_date error iff *)
(* start_date is missing, an end_date error iff end_date is missing, each    *)
(* whatever the other fields are; at most one error per field, in the order  *)
(* goal_type, target_value, start_date, end_date, date.                      *)
C11_ChecksIndependentAndOrdered ==
  validation # Null =>
    /\ ("goal_type" \in ErrorFields) <=>
         (~Has(values, "goal_type") \/ values.goal_type = "")
    /\ ("target_value" \in ErrorFields) <=> TargetMissingOrOutside
    /\ ("start_date" \in ErrorFields) <=> ~Given("start_date")
    /\ ("end_date" \in ErrorFields) <=> ~Given("end_date")
    /\ \A f \in ErrorFields : ErrorCount(f) = 1
    /\ \A i \in 1..(Len(validation.errors) - 1) :
         FieldRank(validation.errors[i].field) < FieldRank(validation.errors[i + 1].field)

\* all four required fields are missing: four errors, in the order of the checks
C11_Witness ==
  /\ validation # Null
  /\ [i \in 1..Len(validation.errors) |-> validation.errors[i].field]
       = <<"goal_type", "target_value", "start_date", "end_date">>

-----------------------------------------------------------------------------
(* Claims about the pure utility functions *)

\* the sets of the session given to computeWorkoutTotals: <<i, j>> is set j
\* of exercise i
SetsOfCall ==
  UNION {{<<i, j>> : j \in 1..Len(call.session.exercises[i].sets)} :
           i \in 1..Len(call.session.exercises)}

\* the sum of reps * weight over a set of sets of the session
RECURSIVE VolumeOver(_)
VolumeOver(ps) ==
  IF ps = {} THEN 0
  ELSE LET p == CHOOSE q \in ps : TRUE
           set == call.session.exercises[p[1]].sets[p[2]]
       IN  set.reps * set.weight + VolumeOver(ps \ {p})

(* C12: computeWorkoutTotals(session) returns as totalSets the number of     *)
(* sets over all exercises and as totalVolume the sum of reps * weight over  *)
(* all sets, completed or not, whatever totals the session stores; a session *)
(* without exercises yields 0 and 0.                                         *)
C12_TotalsCountEverySet ==
  (call # Null /\ call.fn = "computeWorkoutTotals" /\ returned # Null) =>
    /\ returned.value.totalSets = Cardinality(SetsOfCall)
    /\ returned.value.totalVolume = VolumeOver(SetsOfCall)
    /\ call.session.exercises = <<>> =>
         returned.value = [totalSets |-> 0, totalVolume |-> 0]

\* the sets (10, 50) and (8, 60), the second not completed, in a session
\* whose stored totals are stale: 2 sets, volume 980
C12_Witness ==
  /\ call # Null /\ call.fn = "computeWorkoutTotals" /\ returned # Null
  /\ returned.value = [totalSets |-> 2, totalVolume |-> 980]
  /\ call.session.totalSets = 12
  /\ \E p \in SetsOfCall : ~call.session.exercises[p[1]].sets[p[2]].completed

ProgressReturned == call # Null /\ call.fn = "getGoalProgress" /\ returned # Null

\* target is a number greater than 0
PositiveTarget == "num" \in DOMAIN call.target /\ call.target.num > 0

(* C15: getGoalProgress(current, target) is min(current / target * 100, 100) *)
(* when target > 0, and 0 when target is undefined, null, zero or negative:  *)
(* so 0 for current 0, 100 for current T and for current 2T, 0 for target 0. *)
C15_GoalProgressIsCappedPercentage ==
  ProgressReturned =>
    LET p == returned.value IN
    IF ~PositiveTarget THEN p # NaN /\ p.n = 0
    ELSE IF call.current = NaN THEN p = NaN
    ELSE IF call.current.num <= call.target.num
      THEN p # NaN /\ p.n * call.target.num = 100 * call.current.num * p.d
    ELSE p # NaN /\ p.n = 100 * p.d

\* current is twice the target: the progress is 100
C15_Witness ==
  /\ ProgressReturned /\ PositiveTarget /\ call.current # NaN
  /\ call.current.num = 2 * call.target.num
  /\ returned.value.n = 100 * returned.value.d

RemainingReturned == call # Null /\ call.fn = "getDaysRemaining" /\ returned # Null

\* endDate - now in hours, for a goal whose endDate parses
HoursLeft == call.goal.endDate.day * 24 - call.today.t

(* C17: getDaysRemaining(goal) is 0 when the goal is absent and otherwise    *)
(* max(0, ceil((endDate - now) / one day)): never negative, and 0 for every  *)
(* goal whose endDate is at or before now.                                   *)
C17_DaysRemainingIsCeilFlooredAtZero ==
  RemainingReturned =>
    IF call.goal = Null THEN returned.value = Num(0)
    ELSE call.goal.endDate.kind = "iso" =>
           LET v == returned.value.num IN
           /\ returned.value # NaN /\ v >= 0
           /\ HoursLeft <= 0 => v = 0
           /\ HoursLeft > 0 => ((v - 1) * 24 < HoursLeft /\ HoursLeft <= v * 24)

\* a day and a half is left: 2 days remain
C17_Witness ==
  /\ RemainingReturned /\ call.goal # Null /\ call.goal.endDate.kind = "iso"
  /\ HoursLeft = 36
  /\ returned.value = Num(2)

DraftValidated == call # Null /\ call.fn = "validateMealDraft" /\ returned # Null

\* the text after its leading blanks and its sign
AfterSign(text) ==
  LET t == TrimLeft(text) IN
  IF t # <<>> /\ t[1] \in {"+", "-"} THEN Tail(t) ELSE t

\* the text starts with an integer: it parses to a number
StartsWithNumber(text) ==
  AfterSign(text) # <<>> /\ AfterSign(text)[1] \in {DigitChars[d] : d \in 1..10}

\* the number the text starts with is negative
StartsWithNegative(text) ==
  /\ StartsWithNumber(text)
  /\ TrimLeft(text)[1] = "-"
  /\ \E k \in 1..Len(AfterSign(text)) :
       /\ \A m \in 1..k : AfterSign(text)[m] \in {DigitChars[d] : d \in 1..10}
       /\ AfterSign(text)[k] # "0"

\* a field of the draft fails its check
FieldFails(f) ==
  IF f = "name" THEN \A k \in 1..Len(call.draft.name) : call.draft.name[k] = " "
  ELSE ~StartsWithNumber(call.draft[f]) \/ StartsWithNegative(call.draft[f])

\* the error a failing field is reported with
ErrorOf(f) ==
  IF f = "name" THEN <<"Meal name is required">>
  ELSE IF ~StartsWithNumber(call.draft[f]) THEN <<FieldLabel(f), " must be a number">>
  ELSE <<FieldLabel(f), " cannot be negative">>

(* C18: validateMealDraft returns one error for each failing field and none  *)
(* for the others, in the order name, calories, protein, fat, carbs: the     *)
(* name fails iff it is empty after trimming, a numeric field iff it does    *)
(* not parse to a number or parses to a negative one; so at most five        *)
(* errors, and the empty list iff all five fields pass.                      *)
C18_MealDraftErrorsInFieldOrder ==
  DraftValidated =>
    LET failing == SelectSeq(<<"name", "calories", "protein", "fat", "carbs">>, FieldFails)
    IN  returned.value = [k \in 1..Len(failing) |-> ErrorOf(failing[k])]

\* an empty name, negative calories and a protein that is no number, next to
\* a valid fat and carbs: exactly these three errors
C18_Witness ==
  /\ DraftValidated
  /\ call.draft = [name |-> <<>>, calories |-> <<"-", "1">>, protein |-> <<"x">>,
                   fat |-> <<"5">>, carbs |-> <<"5">>]
  /\ returned.value = << <<"Meal name is required">>,
                         <<"Calories", " cannot be negative">>,
                         <<"Protein", " must be a number">> >>

DefaultsReturned == call # Null /\ call.fn = "ensureDefaults" /\ returned # Null

\* the list is the four-task starter set
IsStarterSet(ts) ==
  /\ Len(ts) = 4
  /\ ts[1].id = "water" /\ ts[1].type = "counter" /\ ts[1].target = 8 /\ ts[1].value = 0
  /\ ts[2].id = "steps" /\ ts[2].type = "counter" /\ ts[2].target = 8000 /\ ts[2].value = 0
  /\ ts[3].id = "protein" /\ ts[3].type = "checkbox" /\ ts[3].completed = FALSE
  /\ ts[4].id = "workout" /\ ts[4].type = "checkbox" /\ ts[4].completed = FALSE

(* C19: ensureDefaults returns the given list itself when it is present and  *)
(* not empty, and otherwise the four-task starter set (counters water with   *)
(* target 8 and steps with target 8000, both at value 0; checkboxes protein  *)
(* and workout, both not completed). Hence applying it to its own result     *)
(* returns that result, and computeDailyProgress of the starter set is 0.    *)
C19_EnsureDefaultsKeepsOrStarts ==
  /\ [](DefaultsReturned =>
          IF call.tasks # Undefined /\ call.tasks.list # <<>>
            THEN returned.value = call.tasks.list
            ELSE IsStarterSet(returned.value))
  /\ []((call # Null /\ call.fn = "computeDailyProgress" /\ IsStarterSet(call.tasks.list))
          => returned.value = 0)
  /\ [][CallEnsureDefaultsAgain => returned'.value = returned.value]_vars

\* the starter set came back for an empty list, and its progress was computed
C19_Witness ==
  /\ call # Null /\ call.fn = "computeDailyProgress"
  /\ IsStarterSet(call.tasks.list)
  /\ returned = [value |-> 0]

\* the one field the call may write: completed for a toggle, value for an update
WrittenField(c) == IF c.op = "toggle" THEN "completed" ELSE "value"

\* every field of the task before apart from f is in the task after, unchanged,
\* and the task after has no field beyond these and f
SameApartFrom(before, after, f) ==
  /\ DOMAIN after \subseteq DOMAIN before \cup {f}
  /\ \A g \in DOMAIN before \ {f} : g \in DOMAIN after /\ after[g] = before[g]

(* C20: toggleCheckboxTask and updateCounterTask return a list of the same   *)
(* length and order; tasks with another id are unchanged, and every field of *)
(* a task with the given id other than completed (for toggle) or value (for  *)
(* update) is unchanged; when no task has the given id the list returned has *)
(* the same contents.                                                        *)
C20_OnlyTheMatchingFieldChanges ==
  [][tkCall'.op \in {"toggle", "update"} =>
       /\ Len(tasks') = Len(tasks)
       /\ \A i \in 1..Len(tasks) :
            /\ tasks'[i].id = tasks[i].id
            /\ tasks[i].id # tkCall'.id => tasks'[i] = tasks[i]
            /\ tasks[i].id = tkCall'.id =>
                 SameApartFrom(tasks[i], tasks'[i], WrittenField(tkCall'))
       /\ (\A i \in 1..Len(tasks) : tasks[i].id # tkCall'.id) => tasks' = tasks]_vars

\* "a" was toggled in a list that holds counter "b" before it: "b" still has
\* its target and value, "a" is completed
C20_Witness ==
  /\ tkCall # Null /\ tkCall.op = "toggle" /\ tkCall.id = "a"
  /\ tasks = << [id |-> "b", type |-> "counter", target |-> 1, value |-> 1],
                [id |-> "a", type |-> "checkbox", completed |-> TRUE] >>

TotalReturned == call # Null /\ call.fn \in TotalFns /\ returned # Null

\* the field a getTotal function sums
FieldOfTotal(fn) ==
  CASE fn = "getTotalCalories" -> "calories"
    [] fn = "getTotalProtein" -> "protein"
    [] fn = "getTotalFat" -> "fat"
    [] fn = "getTotalCarbs" -> "carbs"

\* the sum of field f over the meals of ms, taken in no particular order
FieldTotal(ms, f) ==
  LET Over[S \in SUBSET (1..Len(ms))] ==
        IF S = {} THEN 0
        ELSE LET i == CHOOSE k \in S : TRUE IN ms[i][f].num + Over[S \ {i}]
  IN  Over[1..Len(ms)]

(* C22: each of getTotalCalories, getTotalProtein, getTotalFat and           *)
(* getTotalCarbs returns the arithmetic sum of its field over the meal list: *)
(* 0 for the empty list, and the same for every order of the same meals.     *)
C22_TotalsAreOrderFreeSums ==
  /\ [](TotalReturned =>
          /\ returned.value = Num(FieldTotal(call.meals.list, FieldOfTotal(call.fn)))
          /\ call.meals.list = <<>> => returned.value = Num(0))
  /\ [][CallTotalShuffled => returned'.value = returned.value]_vars

\* the two meals of the totals test after a meal of small numbers, in
\* another order than they were first given: 55 + 4 carbs
C22_Witness ==
  /\ TotalReturned /\ call.fn = "getTotalCarbs"
  /\ Len(call.meals.list) = 3
  /\ call.meals.list[1].id = "4" /\ call.meals.list[2].id = "2" /\ call.meals.list[3].id = "1"
  /\ returned.value = Num(59)

-----------------------------------------------------------------------------
(* Claims about computeLocalTrends *)

\* computeLocalTrends returned (it did not throw)
TrendsReturned == trends # Null /\ trends # Threw

\* the sessions of the history that fall on a calendar day
SessionsOn(day) == {i \in 1..Len(history) : history[i].date = IsoDate(day)}

\* the calendar days occurring in the history
HistoryDays == {history[i].date.day : i \in 1..Len(history)}

\* the sum of a field over a set of sessions of the history
RECURSIVE FieldSum(_, _)
FieldSum(is, f) ==
  IF is = {} THEN 0
  ELSE LET i == CHOOSE j \in is : TRUE IN history[i][f] + FieldSum(is \ {i}, f)

(* C13: computeLocalTrends returns exactly one entry per distinct calendar   *)
(* day of the history, holding the sums of totalVolume and of totalSets of   *)
(* the sessions of that day; the entries are in strictly ascending date      *)
(* order and no day is dropped, whatever the order of the sessions.          *)
C13_OneEntryPerDaySortedAscending ==
  TrendsReturned =>
    LET entries == trends.entries IN
    /\ Len(entries) = Cardinality(HistoryDays)
    /\ {entries[k].key : k \in 1..Len(entries)} = {IsoDate(d) : d \in HistoryDays}
    /\ \A k \in 1..Len(entries) :
         /\ entries[k].volume = FieldSum(SessionsOn(entries[k].key.day), "totalVolume")
         /\ entries[k].sets = FieldSum(SessionsOn(entries[k].key.day), "totalSets")
    /\ \A k \in 1..(Len(entries) - 1) : entries[k].key.day < entries[k + 1].key.day

\* two sessions of one day, volumes 100 and 1 / VolumeScale, and a session of
\* a later day that comes before one of them: the day's entry comes first
\* and holds the sum of the two
C13_Witness ==
  /\ TrendsReturned
  /\ \E i \in 1..Len(history) : \E j \in 1..Len(history) :
       /\ i < j /\ history[i].date.day > history[j].date.day
  /\ \E i \in 1..Len(history) : \E j \in 1..Len(history) :
       /\ i # j /\ history[i].date = history[j].date
       /\ history[i].totalVolume = Units(100) /\ history[j].totalVolume = 1
       /\ trends.entries[1].key = history[i].date
       /\ trends.entries[1].volume = Units(100) + 1
  /\ Len(trends.entries) = 2

\* the largest volume among the returned entries (0 when there are none)
LargestVolume ==
  IF trends.entries = <<>> THEN 0
  ELSE CHOOSE v \in {trends.entries[k].volume : k \in 1..Len(trends.entries)} :
         \A k \in 1..Len(trends.entries) : trends.entries[k].volume <= v

(* C14, as stated: maxVolume is the largest per-day volume among the entries *)
(* and never less than 1: it is 1 when the history is empty or every day's   *)
(* volume is 0, and every entry's volume is at most maxVolume.               *)
C14_MaxVolumeAtLeastOne ==
  TrendsReturned =>
    /\ trends.maxVolume >= Units(1)
    /\ IF \A k \in 1..Len(trends.entries) : trends.entries[k].volume = 0
         THEN trends.maxVolume = Units(1)
         ELSE trends.maxVolume = LargestVolume
    /\ \A k \in 1..Len(trends.entries) : trends.entries[k].volume <= trends.maxVolume

(* C14, amended: maxVolume is the largest per-day volume when that is        *)
(* positive and 1 otherwise (no entries, or no day with a positive volume):  *)
(* it is never 0 or negative, and every entry's volume is at most maxVolume. *)
C14_MaxVolumePositive ==
  TrendsReturned =>
    /\ trends.maxVolume > 0
    /\ IF LargestVolume > 0
         THEN trends.maxVolume = LargestVolume
         ELSE trends.maxVolume = Units(1)
    /\ \A k \in 1..Len(trends.entries) : trends.entries[k].volume <= trends.maxVolume

\* the largest day holds a fraction of a unit, and so does maxVolume
C14_Witness ==
  /\ TrendsReturned /\ Len(trends.entries) = 2
  /\ 0 < trends.maxVolume /\ trends.maxVolume < Units(1)
  /\ \E k \in 1..2 : trends.entries[k].volume < 0

-----------------------------------------------------------------------------
(* Claims about App's routing *)

\* the hashes hashToPage recognises as a page other than home: those that
\* start with the hash of that page ('#/goals/new' before '#/goals')
RecognisedAs(hash, page) ==
  /\ page # "home"
  /\ StartsWith(hash, pageToHash(page))
  /\ page = "goalsList" => ~StartsWith(hash, pageToHash("goalsForm"))

(* C30: routing round-trips: hashToPage(pageToHash(p)) = p for every page p, *)
(* and hashToPage returns a page, never null, for every hash string: the     *)
(* page whose hash the string starts with, and home for every other string.  *)
C30_RoutingRoundTrips ==
  (call # Null /\ call.fn = "hashToPage" /\ returned # Null) =>
    /\ returned.value \in Pages
    /\ "of" \in DOMAIN call => returned.value = call.of
    /\ \A p \in Pages : RecognisedAs(call.hash, p) => returned.value = p
    /\ (\A p \in Pages : ~RecognisedAs(call.hash, p)) => returned.value = "home"

\* the hash of goalsForm, which also starts with the hash of goalsList, came
\* back as goalsForm
C30_Witness ==
  /\ call # Null /\ call.fn = "hashToPage" /\ "of" \in DOMAIN call
  /\ call.of = "goalsForm"
  /\ returned = [value |-> "goalsForm"]

-----------------------------------------------------------------------------
(* Claims about GoalsService.createGoal and AuthService *)

\* the requests of the call that were sent with a token, and without
AuthPosts == {i \in 1..Len(posts) : posts[i].auth}

FallbackPosts == {i \in 1..Len(posts) : ~posts[i].auth}

(* C25: createGoal sends the unauthenticated fallback POST /goals only when  *)
(* no auth token is available; whenever the authenticated POST was sent and  *)
(* answered, with a success or an error status, 401 included, the same call  *)
(* issues no second POST /goals.                                             *)
C25_FallbackOnlyWithoutToken ==
  /\ FallbackPosts # {} => (authToken = Null /\ AuthPosts = {})
  /\ (AuthPosts # {} /\ authStatus # 0) => Len(posts) = 1

\* the failures of makeAuthenticatedRequest after which nothing was sent
SentNothing == authError = NoAuthToken => AuthPosts = {}

\* a store that was empty holds a value after the step, or isLoggedIn()
\* turns from false to true
SignedInAgain ==
  \/ tokenItem = Null /\ tokenItem' # Null
  \/ userItem = Null /\ userItem' # Null
  \/ authSession = Null /\ authSession' # Null
  \/ ~isLoggedIn /\ isLoggedIn'

(* C27: makeAuthenticatedRequest fails with 'Session expired' only after a   *)
(* 401 and after its logout removed the stored auth token and the stored     *)
(* current user and signed out: from the 401 on, the stores stay empty and   *)
(* isLoggedIn() stays false unless a step of login or register signs in      *)
(* again (with no sign-in at all they are empty and isLoggedIn() is false at *)
(* the failure); and makeAuthenticatedRequest sends a request only with the  *)
(* token it found, none when no token is available.                          *)
C27_ExpiredSessionIsLoggedOut ==
  /\ [](authError = SessionExpired => (authStatus = 401 /\ authToken # Null))
  /\ [][(authStatus' = 401 /\ authStatus # 401) => tokenItem' = Null]_vars
  /\ [][(authError' = SessionExpired /\ authError # SessionExpired) =>
          /\ authSession' = Null
          /\ signIns = 0 => (tokenItem' = Null /\ userItem' = Null /\ ~isLoggedIn')]_vars
  /\ [][(authStatus = 401 /\ authStatus' = 401 /\ SignedInAgain) =>
          loginPc' # loginPc]_vars
  /\ [][(Len(posts') > Len(posts) /\ posts'[Len(posts')].auth) =>
          /\ authToken' # Null
          /\ posts'[Len(posts')].bearer = authToken'
          /\ authToken' \in {tokenItem} \cup
               (IF authSession # Null THEN {authSession.access_token} ELSE {})]_vars
  /\ []SentNothing

\* the request went out with the stored token, was answered 401, and the
\* call failed with 'Session expired': token, user and session are gone
C27_Witness ==
  /\ authError = SessionExpired /\ authStatus = 401
  /\ authToken = TokenOf(0) /\ posts[1].auth
  /\ tokenItem = Null /\ userItem = Null /\ authSession = Null
  /\ loginPc = "idle" /\ signIns = 0

-----------------------------------------------------------------------------
(* Claims about MacroTracker's persistence and Dashboard's meal count *)

\* the meals in storage under the meals key of a user and a date
MealsUnder(user, date) ==
  LET item == storage[STORAGE_MEALS_KEY(user, date)]
  IN  IF item = Null THEN <<>> ELSE ParseArray(item)

\* the goals (none or one) in storage under the goal key of a user and a date
GoalsUnder(user, date) ==
  LET item == storage[STORAGE_GOAL_KEY(user, date)]
  IN  IF item = Null \/ Parse(item) = Null THEN <<>> ELSE <<Parse(item)>>

(* C23: whatever the order in which the load and save effects and the        *)
(* storage calls run, the meals stored under the key of a date are meals of  *)
(* that date: a change of selectedDate from A to B never stores A's meal     *)
(* list under B's key.                                                       *)
C23_MealsStoredUnderTheirOwnDate ==
  \A user \in Users, date \in Days :
    \A i \in 1..Len(MealsUnder(user, date)) :
      origin[MealsUnder(user, date)[i].id][2] = date

\* a meal or goal that an earlier run stored under a key of the guest
FromGuestKeys(x) == x.id \in EarlierIds /\ origin[x.id][1] = Guest

(* C24: once userId is the id of the signed-in user, the meals and the goal  *)
(* shown are not those loaded from the guest's keys, and nothing loaded from *)
(* the guest's keys is stored under the user's keys.                         *)
C24_GuestItemsStayOutOfUserKeys ==
  /\ \A date \in Days :
       /\ \A i \in 1..Len(MealsUnder(TheUser.id, date)) :
            ~FromGuestKeys(MealsUnder(TheUser.id, date)[i])
       /\ \A i \in 1..Len(GoalsUnder(TheUser.id, date)) :
            ~FromGuestKeys(GoalsUnder(TheUser.id, date)[i])
  /\ (currentPage = "macro" /\ userId = TheUser.id) =>
       /\ \A i \in 1..Len(meals) : ~FromGuestKeys(meals[i])
       /\ currentGoal # Null => ~FromGuestKeys(currentGoal)

\* getCurrentUser()?.id || 'guest'
CurrentUserId == IF userItem # Null THEN userItem.id ELSE Guest

(* C29: once the Dashboard has loaded and every storage call is completed,   *)
(* its Meals Today count is the number of meals MacroTracker persisted for   *)
(* the current user for today.                                               *)
C29_DashboardCountsPersistedMeals ==
  (currentPage = "dashboard" /\ pending = <<>> /\ awaited = {}) =>
    todayMeals = Len(MealsUnder(CurrentUserId, Today))

=============================================================================
